---- MODULE Spec2Model ----
(***************************************************************************)
(* Behavioural control plane of the robot face: the state machine          *)
(* (core/state_machine.py), the state handlers' activation flag            *)
(* (states/base_state.py) and the event bus (utils/events.py).             *)
(*                                                                         *)
(* Every operation of the program is a pure operator over a "world"        *)
(* record (the fields of the objects it touches plus the trace of calls    *)
(* it makes); the actions of the specifications apply one operation to     *)
(* the variables and record the call in lastCall / pre / trace.            *)
(***************************************************************************)
EXTENDS Integers, Sequences, FiniteSets, TLC

VARIABLES
    states,          \* StateMachine._states: dict name -> handler object
    current_state,   \* StateMachine._current_state: handler object or None
    previous_state,  \* StateMachine._previous_state: name or None
    is_active,       \* BaseState.is_active of every handler object
    listeners,       \* EventSystem._listeners: dict kind -> list of callbacks
    raising,         \* the callbacks whose invocation raises an Exception
    trace,           \* the calls made by the last operation, in order
    lastCall,        \* the last operation: name, arguments, result
    pre,             \* the fields as they were when the last operation began
    run,             \* the current run of consecutive change_state(X) calls
    running,         \* RobotFaceApp.running
    clients,         \* CommandInterface.clients: the writers of open connections
    pc,              \* where each task of the event loop is suspended
    stepper,         \* the task that ran last
    command_handlers,\* CommandInterface.command_handlers: name -> handler
    is_running,      \* CommandInterface.is_running
    server,          \* CommandInterface.server: None, "listening" or "closed"
    lines,           \* per connection: complete non-empty lines received
    replies,         \* per connection: the response lines written, in order
    partial,         \* per connection: the last read ended inside a line
    bc,              \* the broadcast_message call in progress, if any
    closes,          \* per connection: the calls of writer.close() so far
    stop,            \* the stop_server call in progress, if any
    handler_fields,  \* the fields of every state handler object
    ticks,           \* pygame.time.get_ticks(), in milliseconds
    info             \* the dict the last update() returned

appVars == <<clients, pc, stepper>>

connVars == <<lines, replies, partial>>

netVars == <<command_handlers, is_running, server, lines, replies, partial,
             bc, closes, stop>>

handlerVars == <<handler_fields, ticks, info>>

vars == <<states, current_state, previous_state, is_active, listeners,
          raising, trace, lastCall, pre, run, running, clients, pc, stepper,
          command_handlers, is_running, server, lines, replies, partial,
          bc, closes, stop, handler_fields, ticks, info>>

None == "None"

-----------------------------------------------------------------------------
(* Bounds and input sets *)

\* Longest run of consecutive change_state(X) calls that is counted.
MaxRun == 3

\* Handler objects; idle1 and idle2 are two instances that carry the same name.
Handlers == {"idle1", "idle2", "thinking1", "speaking1"}

\* The handler objects the application registers (setup_states).
AppHandlers == {"idle1", "thinking1", "speaking1", "sleeping1"}

NameOf(h) ==
    CASE h \in {"idle1", "idle2"} -> "idle"
      [] h = "thinking1" -> "thinking"
      [] h = "speaking1" -> "speaking"
      [] h = "sleeping1" -> "sleeping"

StateNames == {NameOf(h) : h \in Handlers}

\* Names a caller may pass: the registered ones and one that never is.
CallNames == StateNames \cup {"nonexistent"}

\* **kwargs of change_state, by what enter() does with them: none, an
\* ordinary parameter, or a key "previous_state", which collides with the
\* keyword enter() is called with.
Kwargs == {"none", "intensity", "previous_state"}

EventTypes == {"STATE_CHANGED", "COMMAND_RECEIVED"}

\* Opaque subscriber callbacks of the bus.
Callbacks == {"cbA", "cbB", "cbC"}

\* Client connections of the command server, and the tasks of the event
\* loop: one per connection, the game loop, the task of start_server and
\* the main coroutine _run_with_command_interface.
Conns == {"c1", "c2"}

Tasks == Conns \cup {"loop", "server", "main"}

\* Most pygame events one call of handle_events finds queued.
MaxKeys == 1

\* Most request lines and most response lines that are counted on one
\* connection.
MaxLines == 2

\* The milliseconds that pass between two looks at the clock, and the
\* number of such steps that are followed.
TickStep == 50

MaxTicks == 2

\* The number of steps followed where only the lip-sync index is watched.
MaxLipTicks == 5

-----------------------------------------------------------------------------
(* Sequences as Python lists *)

Range(s) == {s[i] : i \in 1..Len(s)}

NoDuplicates(s) == \A i, j \in 1..Len(s) : s[i] = s[j] => i = j

\* list.remove(x): drops the first occurrence; the list is unchanged when x
\* is absent (the ValueError is swallowed by the caller).
RemoveFirst(s, x) ==
    IF x \notin Range(s) THEN s
    ELSE LET k == CHOOSE i \in 1..Len(s) :
                      s[i] = x /\ \A j \in 1..(i - 1) : s[j] # x
         IN SubSeq(s, 1, k - 1) \o SubSeq(s, k + 1, Len(s))

\* dict[key] = value
DictSet(d, k, v) == [x \in DOMAIN d \cup {k} |-> IF x = k THEN v ELSE d[x]]

\* del dict[key]
DictDel(d, k) == [x \in DOMAIN d \ {k} |-> d[x]]

EmptyDict == [x \in {} |-> None]

\* One call recorded in the trace: what was called, on which handler or
\* callback (or which event kind was emitted), and with which event.
Entry(op, h, ev) == [op |-> op, h |-> h, ev |-> ev]

Log(w, entry) == [w EXCEPT !.trace = Append(@, entry)]

-----------------------------------------------------------------------------
(* utils/events.py : EventSystem *)

\* Mutant of subscribe: the membership test is missing.
subscribe_always_appends(w, event_type, callback) ==
    LET L1 == IF event_type \notin DOMAIN w.listeners
              THEN DictSet(w.listeners, event_type, <<>>)
              ELSE w.listeners
    IN [w EXCEPT !.listeners = [L1 EXCEPT ![event_type] = Append(@, callback)]]

\* subscribe(event_type, callback)
subscribe(w, event_type, callback) ==
    LET L1 == IF event_type \notin DOMAIN w.listeners
              THEN DictSet(w.listeners, event_type, <<>>)
              ELSE w.listeners
        L2 == IF callback \notin Range(L1[event_type])
              THEN [L1 EXCEPT ![event_type] = Append(@, callback)]
              ELSE L1
    IN [w EXCEPT !.listeners = L2]

\* unsubscribe(event_type, callback): list.remove raises ValueError for an
\* absent callback, which the except clause swallows.
unsubscribe(w, event_type, callback) ==
    IF event_type \in DOMAIN w.listeners
    THEN [w |-> [w EXCEPT !.listeners[event_type] = RemoveFirst(@, callback)],
          exc |-> FALSE]
    ELSE [w |-> w, exc |-> FALSE]

\* Mutant of clear_listeners: the kind is ignored and every list is dropped.
clear_listeners_ignores_kind(w, event_type) ==
    [w EXCEPT !.listeners = EmptyDict]

\* clear_listeners(event_type = None)
clear_listeners(w, event_type) ==
    IF event_type # None
    THEN [w EXCEPT !.listeners = DictSet(@, event_type, <<>>)]
    ELSE [w EXCEPT !.listeners = EmptyDict]

\* Event(event_type, data)
Event(event_type, data) == [type |-> event_type, data |-> data]

-----------------------------------------------------------------------------
(* states/base_state.py : BaseState, as the concrete handlers extend it *)

\* Mutant of exit: the handler forgets super().exit() and stays active.
exit_keeps_active(w, h) ==
    Log(w, Entry("exit", h, None))

\* exit(): every handler calls super().exit() first.
exit(w, h) ==
    Log([w EXCEPT !.active[h] = FALSE], Entry("exit", h, None))

\* enter(previous_state=..., **kwargs), as called at state_machine.py:55.
\* With a key "previous_state" in kwargs the call itself raises TypeError
\* (two values for one keyword) and the body of enter never runs.
enter(w, h, previous_state_name, kwargs) ==
    IF kwargs = "previous_state"
    THEN [w |-> Log(w, Entry("enter_raised", h, None)), exc |-> TRUE]
    ELSE [w |-> Log([w EXCEPT !.active[h] = TRUE], Entry("enter", h, None)),
          exc |-> FALSE]

-----------------------------------------------------------------------------
(* states/thinking_state.py, states/speaking_state.py : the fields of the  *)
(* concrete handlers. Intensities are counted in tenths, times in          *)
(* milliseconds; an optional value is a sequence of length 0 or 1.         *)

\* _generate_random_lip_sync_pattern: pattern_length = 50
pattern_length == 50

\* The fields of a handler object after __init__ (speaking_intensity
\* starts at intensity_default, 1.0 unless configured). reported is
\* history: some update of the current activation returned
\* should_return_to_idle = True.
NewFields ==
    [intensity |-> 10, duration |-> <<>>, start_time |-> 0,
     lip_sync_length |-> 0, lip_sync_index |-> 0, is_speaking |-> TRUE,
     reported |-> FALSE]

\* The dict an update() returns, with (history) whether an earlier update
\* of the same activation had reported should_return_to_idle.
\* current_lip_intensity is None in the dict of a handler that has no such
\* key.
Info(state, elapsed_time, should_return_to_idle, current_lip_intensity, before) ==
    [state |-> state, elapsed_time |-> elapsed_time,
     should_return_to_idle |-> should_return_to_idle,
     current_lip_intensity |-> current_lip_intensity, before |-> before]

NoInfo == Info(None, 0, FALSE, None, FALSE)

\* kwargs.get(key, default)
Get(kwargs, key, default) ==
    IF key \in DOMAIN kwargs THEN kwargs[key] ELSE default

\* kwargs.get('duration', None)
GetDuration(kwargs) ==
    IF "duration" \in DOMAIN kwargs THEN <<kwargs["duration"]>> ELSE <<>>

\* enter(previous_state, **kwargs) of the handler named name at time now:
\* BaseState.enter stamps start_time; ThinkingState and SpeakingState
\* store the intensity and the duration as given; SpeakingState takes the
\* lip-sync pattern given or, when it is absent or empty, generates one of
\* pattern_length entries.
state_enter(f, name, kwargs, now) ==
    LET g == [f EXCEPT !.start_time = now, !.reported = FALSE] IN
    CASE name = "thinking" ->
           [g EXCEPT !.intensity = Get(kwargs, "intensity", 10),
                     !.duration = GetDuration(kwargs)]
      [] name = "speaking" ->
           [g EXCEPT !.intensity = Get(kwargs, "intensity", 10),
                     !.duration = GetDuration(kwargs),
                     !.lip_sync_length =
                         IF Get(kwargs, "lip_sync_pattern", 0) = 0
                         THEN pattern_length
                         ELSE kwargs["lip_sync_pattern"],
                     !.lip_sync_index = 0,
                     !.is_speaking = TRUE]
      [] OTHER -> g

\* get_elapsed_time()
get_elapsed_time(f, active, now) ==
    IF active THEN now - f.start_time ELSE 0

\* "if self.duration and elapsed >= self.duration": None and 0 are both
\* false in Python.
DurationReached(f, elapsed) ==
    /\ f.duration # <<>>
    /\ f.duration[1] # 0
    /\ elapsed >= f.duration[1]

\* Mutant of _update_lip_sync: the index is rounded to the nearest entry.
update_lip_sync_rounds(f, elapsed) ==
    IF f.lip_sync_length = 0 THEN f
    ELSE LET target_index == (elapsed + 50) \div 100 IN
         [f EXCEPT !.lip_sync_index =
                       IF target_index < f.lip_sync_length THEN target_index
                       ELSE f.lip_sync_length]

\* _update_lip_sync(): target_index = int(elapsed_ms / 100), one entry per
\* 100 ms, up to the length of the pattern (the elapsed time is never
\* negative, so int() is the floor).
update_lip_sync(f, elapsed) ==
    IF f.lip_sync_length = 0 THEN f
    ELSE LET target_index == elapsed \div 100 IN
         [f EXCEPT !.lip_sync_index =
                       IF target_index < f.lip_sync_length THEN target_index
                       ELSE f.lip_sync_length]

\* get_current_lip_intensity(): 0.0 without a pattern or at its end, else
\* the entry at the index; a list index below -len raises IndexError.
get_current_lip_intensity(f) ==
    IF f.lip_sync_length = 0 \/ f.lip_sync_index >= f.lip_sync_length
    THEN "0.0"
    ELSE IF f.lip_sync_index >= 0 - f.lip_sync_length THEN "entry"
    ELSE "IndexError"

\* update(dt) of the handler named name: the fields after it, and
\* should_return_to_idle and elapsed_time of the dict it returns. IdleState
\* and SleepingState report no should_return_to_idle.
state_update(f, name, active, now) ==
    LET elapsed == get_elapsed_time(f, active, now) IN
    CASE name = "thinking" ->
           [f |-> f, should_return_to_idle |-> DurationReached(f, elapsed),
            elapsed_time |-> elapsed, current_lip_intensity |-> None]
      [] name = "speaking" ->
           LET g == update_lip_sync(f, elapsed)
               done == \/ DurationReached(g, elapsed)
                       \/ g.lip_sync_index >= g.lip_sync_length
           IN [f |-> [g EXCEPT !.is_speaking = IF done THEN FALSE ELSE @],
               should_return_to_idle |-> done, elapsed_time |-> elapsed,
               current_lip_intensity |-> get_current_lip_intensity(g)]
      [] OTHER ->
           [f |-> f, should_return_to_idle |-> FALSE, elapsed_time |-> elapsed,
            current_lip_intensity |-> None]

\* handle_event(event) of the handler named name for a KEYDOWN of key.
state_handle_event(f, name, key) ==
    IF name \notin {"thinking", "speaking"} THEN f
    ELSE CASE key = "K_UP" ->
                [f EXCEPT !.intensity = IF @ + 1 > 20 THEN 20 ELSE @ + 1]
           [] key = "K_DOWN" ->
                [f EXCEPT !.intensity = IF @ - 1 < 1 THEN 1 ELSE @ - 1]
           [] key = "K_RETURN" /\ name = "speaking" ->
                [f EXCEPT !.is_speaking = ~@]
           [] OTHER -> f

\* set_thinking_intensity(intensity) / set_speaking_intensity(intensity)
set_intensity(f, intensity) ==
    [f EXCEPT !.intensity = IF intensity > 20 THEN 20
                            ELSE IF intensity < 1 THEN 1 ELSE intensity]

-----------------------------------------------------------------------------
(* core/state_machine.py : StateMachine, with the bus it emits on *)

RECURSIVE change_state(_, _, _)
RECURSIVE emit_loop(_, _, _)

\* on_state_changed(event): prints the transition.
on_state_changed(w, event) == [w |-> w, exc |-> FALSE]

\* on_command_received(event): turns a network command into calls on the
\* state machine. No handler defines set_parameters, so set_parameter only
\* prints. The call change_state(state_name, **parameters) raises TypeError
\* before change_state runs when parameters holds a key "state_name" (two
\* values for one argument).
on_command_received(w, event) ==
    LET command_data == event.data IN
    CASE command_data.command = "change_state" ->
           IF command_data.parameters = "state_name"
           THEN [w |-> w, exc |-> TRUE]
           ELSE LET r == change_state(w, command_data.state,
                                      command_data.parameters)
                IN [w |-> r.w, exc |-> r.ret = "raised"]
      [] command_data.command = "shutdown" ->
           [w |-> [w EXCEPT !.running = FALSE], exc |-> FALSE]
      [] OTHER -> [w |-> w, exc |-> FALSE]

\* A subscriber of STATE_CHANGED that reacts to a transition into thinking
\* by calling change_state("speaking") from inside its callback.
s1(w, event) ==
    IF event.data.current_state = "thinking"
    THEN LET r == change_state(w, "speaking", "none")
         IN [w |-> r.w, exc |-> r.ret = "raised"]
    ELSE [w |-> w, exc |-> FALSE]

\* A subscriber that unsubscribes itself when it is invoked.
remover(w, event) == unsubscribe(w, event.type, "remover")

\* A subscriber that subscribes cbB for the same kind when it is invoked.
adder(w, event) == [w |-> subscribe(w, event.type, "cbB"), exc |-> FALSE]

\* callback(event): what invoking a subscriber does.
Invoke(w, callback, event) ==
    LET w1 == Log(w, Entry("call", callback, event)) IN
    CASE callback = "on_state_changed" -> on_state_changed(w1, event)
      [] callback = "on_command_received" -> on_command_received(w1, event)
      [] callback = "s1" -> s1(w1, event)
      [] callback = "remover" -> remover(w1, event)
      [] callback = "adder" -> adder(w1, event)
      [] OTHER -> [w |-> w1, exc |-> callback \in w.raising]

\* Mutant of emit_loop: the listeners are walked from the last to the first.
RECURSIVE emit_loop_reversed(_, _, _)
emit_loop_reversed(w, event, i) ==
    IF i > Len(w.listeners[event.type])
    THEN [w |-> w, exc |-> FALSE]
    ELSE LET n == Len(w.listeners[event.type])
             r == Invoke(w, w.listeners[event.type][n + 1 - i], event)
         IN emit_loop_reversed(r.w, event, i + 1)

\* Mutant of emit_loop: no try/except around the callback, so the first
\* exception ends the loop and leaves emit.
RECURSIVE emit_loop_no_catch(_, _, _)
emit_loop_no_catch(w, event, i) ==
    IF i > Len(w.listeners[event.type])
    THEN [w |-> w, exc |-> FALSE]
    ELSE LET r == Invoke(w, w.listeners[event.type][i], event)
         IN IF r.exc THEN r ELSE emit_loop_no_catch(r.w, event, i + 1)

\* The for loop of emit, from the i-th listener on: each callback is called
\* inside try/except Exception, so a raising callback is logged and the
\* loop goes on.
emit_loop(w, event, i) ==
    IF i > Len(w.listeners[event.type])
    THEN [w |-> w, exc |-> FALSE]
    ELSE LET r == Invoke(w, w.listeners[event.type][i], event)
         IN emit_loop(r.w, event, i + 1)

\* emit(event_type, data)
emit(w, event_type, data) ==
    LET event == Event(event_type, data)
        w1 == Log(w, Entry("emit", event_type, event))
    IN IF event_type \in DOMAIN w1.listeners
       THEN emit_loop(w1, event, 1)
       ELSE [w |-> w1, exc |-> FALSE]

\* add_state(state)
add_state(w, h) ==
    [w EXCEPT !.states = DictSet(@, NameOf(h), h)]

\* Mutant of remove_state: the entry is deleted without exiting the active
\* handler.
remove_state_no_exit(w, state_name) ==
    IF state_name \in DOMAIN w.states
    THEN Log([w EXCEPT !.states = DictDel(@, state_name)],
             Entry("del", state_name, None))
    ELSE w

\* Mutant of remove_state: the recorded previous name is forgotten.
remove_state_resets_previous(w, state_name) ==
    IF state_name \in DOMAIN w.states
    THEN Log([w EXCEPT !.states = DictDel(@, state_name),
                       !.previous = None],
             Entry("del", state_name, None))
    ELSE w

\* remove_state(state_name)
remove_state(w, state_name) ==
    IF state_name \in DOMAIN w.states
    THEN LET w1 == IF w.current # None /\ NameOf(w.current) = state_name
                   THEN [exit(w, w.current) EXCEPT !.current = None]
                   ELSE w
         IN Log([w1 EXCEPT !.states = DictDel(@, state_name)],
                Entry("del", state_name, None))
    ELSE w

\* The STATE_CHANGED payload of change_state.
StateChangedData(previous_state_name, state_name, kwargs) ==
    [previous_state |-> previous_state_name,
     current_state |-> state_name,
     parameters |-> kwargs]

\* Mutant of change_state: STATE_CHANGED is emitted before enter() is called.
change_state_emit_before_enter(w, state_name, kwargs) ==
    IF state_name \notin DOMAIN w.states
    THEN [w |-> w, ret |-> "False"]
    ELSE IF w.current # None /\ NameOf(w.current) = state_name
    THEN [w |-> w, ret |-> "True"]
    ELSE LET previous_state_name ==
                 IF w.current # None THEN NameOf(w.current) ELSE None
             w1 == IF w.current # None THEN exit(w, w.current) ELSE w
             w2 == [w1 EXCEPT !.previous = previous_state_name,
                              !.current = w1.states[state_name]]
             m == emit(w2, "STATE_CHANGED",
                       StateChangedData(previous_state_name, state_name, kwargs))
             e == enter(m.w, w2.current, previous_state_name, kwargs)
         IN [w |-> e.w, ret |-> IF e.exc THEN "raised" ELSE "True"]

\* Mutant of change_state: the registry is consulted only after the active
\* handler has been exited.
change_state_check_after_exit(w, state_name, kwargs) ==
    IF w.current # None /\ NameOf(w.current) = state_name
    THEN [w |-> w, ret |-> "True"]
    ELSE LET previous_state_name ==
                 IF w.current # None THEN NameOf(w.current) ELSE None
             w1 == IF w.current # None THEN exit(w, w.current) ELSE w
         IN IF state_name \notin DOMAIN w.states
            THEN [w |-> w1, ret |-> "False"]
            ELSE LET w2 == [w1 EXCEPT !.previous = previous_state_name,
                                      !.current = w1.states[state_name]]
                     e == enter(w2, w2.current, previous_state_name, kwargs)
                 IN IF e.exc
                    THEN [w |-> e.w, ret |-> "raised"]
                    ELSE LET m == emit(e.w, "STATE_CHANGED",
                                       StateChangedData(previous_state_name,
                                                        state_name, kwargs))
                         IN [w |-> m.w, ret |-> "True"]

\* Mutant of change_state: a change to the active state is not suppressed.
change_state_reenters(w, state_name, kwargs) ==
    IF state_name \notin DOMAIN w.states
    THEN [w |-> w, ret |-> "False"]
    ELSE LET previous_state_name ==
                 IF w.current # None THEN NameOf(w.current) ELSE None
             w1 == IF w.current # None THEN exit(w, w.current) ELSE w
             w2 == [w1 EXCEPT !.previous = previous_state_name,
                              !.current = w1.states[state_name]]
             e == enter(w2, w2.current, previous_state_name, kwargs)
         IN IF e.exc
            THEN [w |-> e.w, ret |-> "raised"]
            ELSE LET m == emit(e.w, "STATE_CHANGED",
                               StateChangedData(previous_state_name,
                                                state_name, kwargs))
                 IN [w |-> m.w, ret |-> "True"]

\* Mutant of change_state: the call suspends once the old handler has been
\* exited, so the step of the calling task ends between exit() and enter().
change_state_suspends_after_exit(w, state_name, kwargs) ==
    IF state_name \notin DOMAIN w.states
    THEN [w |-> w, ret |-> "False"]
    ELSE IF w.current # None /\ NameOf(w.current) = state_name
    THEN [w |-> w, ret |-> "True"]
    ELSE IF w.current # None
    THEN [w |-> exit(w, w.current), ret |-> "True"]
    ELSE LET w2 == [w EXCEPT !.previous = None,
                             !.current = w.states[state_name]]
             e == enter(w2, w2.current, None, kwargs)
         IN [w |-> e.w, ret |-> IF e.exc THEN "raised" ELSE "True"]

\* change_state(state_name, **kwargs) -> bool; ret is "True", "False" or
\* "raised" when an exception leaves the call.
change_state(w, state_name, kwargs) ==
    IF state_name \notin DOMAIN w.states
    THEN [w |-> w, ret |-> "False"]
    ELSE IF w.current # None /\ NameOf(w.current) = state_name
    THEN [w |-> w, ret |-> "True"]
    ELSE LET previous_state_name ==
                 IF w.current # None THEN NameOf(w.current) ELSE None
             w1 == IF w.current # None THEN exit(w, w.current) ELSE w
             w2 == [w1 EXCEPT !.previous = previous_state_name,
                              !.current = w1.states[state_name]]
             e == enter(w2, w2.current, previous_state_name, kwargs)
         IN IF e.exc
            THEN [w |-> e.w, ret |-> "raised"]
            ELSE LET m == emit(e.w, "STATE_CHANGED",
                               StateChangedData(previous_state_name,
                                                state_name, kwargs))
                 IN [w |-> m.w, ret |-> IF m.exc THEN "raised" ELSE "True"]


-----------------------------------------------------------------------------
(* core/command_interface.py : CommandInterface, the built-in handlers *)

\* A decoded request object: the fields a built-in handler reads, None when
\* absent.
Request(command, state, parameters) ==
    [command |-> command, state |-> state, parameters |-> parameters]

\* The payload of a COMMAND_RECEIVED event.
CommandData(command, state, parameters) ==
    [command |-> command, state |-> state, parameters |-> parameters]

\* A response object. command names the handler that answered; state,
\* parameters and clients_connected are the fields some handlers add
\* (clients_connected is -1 where the response has no such field).
Success(command) ==
    [success |-> TRUE, error |-> None, command |-> command,
     state |-> None, parameters |-> None, clients_connected |-> -1]

Error(kind) ==
    [success |-> FALSE, error |-> kind, command |-> None,
     state |-> None, parameters |-> None, clients_connected |-> -1]

\* command_data.get('parameters', {})
ParametersOrEmpty(command_data) ==
    IF command_data.parameters = None THEN "none" ELSE command_data.parameters

\* Mutant of _handle_change_state: an unregistered state name is refused.
handle_change_state_checks_registry(w, command_data) ==
    IF command_data.state = None \/ command_data.state \notin DOMAIN w.states
    THEN [w |-> w, response |-> Error("missing_state"), exc |-> FALSE]
    ELSE LET m == emit(w, "COMMAND_RECEIVED",
                       CommandData("change_state", command_data.state,
                                   ParametersOrEmpty(command_data)))
         IN [w |-> m.w,
             response |-> [Success("change_state") EXCEPT
                              !.state = command_data.state,
                              !.parameters = ParametersOrEmpty(command_data)],
             exc |-> m.exc]

\* _handle_change_state(command_data)
handle_change_state(w, command_data) ==
    IF command_data.state = None
    THEN [w |-> w, response |-> Error("missing_state"), exc |-> FALSE]
    ELSE LET m == emit(w, "COMMAND_RECEIVED",
                       CommandData("change_state", command_data.state,
                                   ParametersOrEmpty(command_data)))
         IN [w |-> m.w,
             response |-> [Success("change_state") EXCEPT
                              !.state = command_data.state,
                              !.parameters = ParametersOrEmpty(command_data)],
             exc |-> m.exc]

\* _handle_set_parameter(command_data)
handle_set_parameter(w, command_data) ==
    IF command_data.parameters = None
    THEN [w |-> w, response |-> Error("missing_parameters"), exc |-> FALSE]
    ELSE LET m == emit(w, "COMMAND_RECEIVED",
                       CommandData("set_parameter", None,
                                   command_data.parameters))
         IN [w |-> m.w,
             response |-> [Success("set_parameter") EXCEPT
                              !.parameters = command_data.parameters],
             exc |-> m.exc]

\* _handle_get_status(command_data)
handle_get_status(w, command_data) ==
    LET m == emit(w, "COMMAND_RECEIVED", CommandData("get_status", None, None))
    IN [w |-> m.w,
        response |-> [Success("get_status") EXCEPT
                         !.clients_connected = Cardinality(m.w.clients)],
        exc |-> m.exc]

\* Mutant of _handle_shutdown: the handler stops the server itself.
handle_shutdown_stops_server(w, command_data) ==
    LET m == emit(w, "COMMAND_RECEIVED", CommandData("shutdown", None, None))
    IN [w |-> [m.w EXCEPT !.is_running = FALSE],
        response |-> Success("shutdown"), exc |-> m.exc]

\* _handle_shutdown(command_data)
handle_shutdown(w, command_data) ==
    LET m == emit(w, "COMMAND_RECEIVED", CommandData("shutdown", None, None))
    IN [w |-> m.w, response |-> Success("shutdown"), exc |-> m.exc]

\* Mutant of _handle_ping: the handler announces the command like the
\* others.
handle_ping_emits(w, command_data) ==
    LET m == emit(w, "COMMAND_RECEIVED", CommandData("ping", None, None))
    IN [w |-> m.w, response |-> Success("ping"), exc |-> m.exc]

\* _handle_ping(command_data)
handle_ping(w, command_data) ==
    [w |-> w, response |-> Success("ping"), exc |-> FALSE]

\* setup_default_handlers: the names of the handler table.
CommandHandlers ==
    {"change_state", "set_parameter", "get_status", "shutdown", "ping"}

\* The handler table after setup_default_handlers; a built-in handler is
\* named by its command.
DefaultHandlers == [name \in CommandHandlers |-> name]

\* add_command_handler(command_name, handler)
add_command_handler(w, command_name, handler) ==
    [w EXCEPT !.handlers = DictSet(@, command_name, handler)]

\* await handler(command_data): the built-in handlers, and a custom handler
\* "raises" whose body raises an Exception.
call_handler(w, handler, command_data) ==
    CASE handler = "change_state" -> handle_change_state(w, command_data)
      [] handler = "set_parameter" -> handle_set_parameter(w, command_data)
      [] handler = "get_status" -> handle_get_status(w, command_data)
      [] handler = "shutdown" -> handle_shutdown(w, command_data)
      [] handler = "ping" -> handle_ping(w, command_data)
      [] handler = "raises" -> [w |-> w, response |-> Error(None), exc |-> TRUE]

\* A JSON value as json.loads returns it: an object (a dict, with the fields
\* of Request) or a number.
Json(kind, value) == [kind |-> kind, value |-> value]

\* Mutant of _process_command: no try/except around the handler call.
process_command_no_catch(w, command_data) ==
    IF command_data.kind = "number"
    THEN [w |-> w, response |-> Error(None), exc |-> TRUE]
    ELSE IF command_data.value.command = None
    THEN [w |-> w, response |-> Error("missing_command"), exc |-> FALSE]
    ELSE IF command_data.value.command \notin DOMAIN w.handlers
    THEN [w |-> w, response |-> Error("unknown_command"), exc |-> FALSE]
    ELSE LET w1 == Log(w, Entry("process_command",
                                command_data.value.command, None))
         IN call_handler(w1, w1.handlers[command_data.value.command],
                         command_data.value)

\* _process_command(command_data): none of the built-in handlers awaits, so
\* the call runs to its return without suspending. The test
\* 'command' not in command_data raises TypeError for a number, outside the
\* try block, so that exception leaves the call.
process_command(w, command_data) ==
    IF command_data.kind = "number"
    THEN [w |-> w, response |-> Error(None), exc |-> TRUE]
    ELSE IF command_data.value.command = None
    THEN [w |-> w, response |-> Error("missing_command"), exc |-> FALSE]
    ELSE IF command_data.value.command \notin DOMAIN w.handlers
    THEN [w |-> w, response |-> Error("unknown_command"), exc |-> FALSE]
    ELSE LET w1 == Log(w, Entry("process_command",
                                command_data.value.command, None))
             r == call_handler(w1, w1.handlers[command_data.value.command],
                               command_data.value)
         IN [w |-> r.w,
             response |-> IF r.exc THEN Error("handler_error") ELSE r.response,
             exc |-> FALSE]

\* Mutant of the read loop: the response is computed but never written.
write_response_drops(r, c) == r.w

\* The writes of the read loop of _handle_client after _process_command
\* ended as r: the response, or processing_error when an exception left the
\* processing.
write_response(r, c) ==
    IF r.exc
    THEN Log(r.w, Entry("write", c, Error("processing_error")))
    ELSE Log(r.w, Entry("write", c, r.response))

\* The read loop of _handle_client on a message that decoded to a JSON
\* value: process it and write the outcome; the caller then suspends in
\* writer.drain().
handle_message(w, c, command_data) ==
    write_response(process_command(w, command_data), c)

\* The bytes one reader.read returns, as a sequence of pieces. A piece is a
\* complete line (text and its newline), the head of a line (no newline
\* yet) or the tail of a line (the rest and the newline); the text of a line
\* is empty, not JSON ("garbage"), or a JSON value.
Piece(part, kind, value) == [part |-> part, kind |-> kind, value |-> value]

NoRequest == Request(None, None, None)

\* A piece that is white space only: an empty line.
IsBlank(piece) == piece.part = "line" /\ piece.kind = "empty"

\* data.decode('utf-8').strip(): white space is dropped at both ends only.
strip(data) ==
    LET keep == {i \in 1..Len(data) : ~IsBlank(data[i])}
    IN IF keep = {} THEN <<>>
       ELSE LET first == CHOOSE i \in keep : \A j \in keep : i <= j
                last == CHOOSE i \in keep : \A j \in keep : j <= i
            IN SubSeq(data, first, last)

\* json.loads(message): succeeds when the message is exactly one complete
\* JSON text; a fragment of a line, two texts, or text that is not JSON
\* raises JSONDecodeError.
loads(message) ==
    IF /\ Len(message) = 1
       /\ message[1].part = "line"
       /\ message[1].kind \in {"object", "number"}
    THEN [ok |-> TRUE, value |-> Json(message[1].kind, message[1].value)]
    ELSE [ok |-> FALSE, value |-> Json("number", NoRequest)]

\* Mutant of the read loop: a message that does not decode is skipped
\* without a response.
handle_data_skips_bad_json(w, c, data) ==
    LET message == strip(data) IN
    IF message = <<>> \/ ~loads(message).ok THEN w
    ELSE handle_message(w, c, loads(message).value)

\* One pass of the read loop of _handle_client on the data of one read: an
\* empty message is skipped, a message that does not decode is answered
\* with invalid_json, any other is processed.
handle_data(w, c, data) ==
    LET message == strip(data) IN
    IF message = <<>> THEN w
    ELSE IF ~loads(message).ok
    THEN Log(w, Entry("write", c, Error("invalid_json")))
    ELSE handle_message(w, c, loads(message).value)

\* _handle_client up to its first reader.read: the writer, a new object on
\* which close() was never called, joins the client set.
accept(w, c) ==
    [w EXCEPT !.clients = @ \cup {c}, !.closes[c] = 0]

\* Mutant of the finally block of _handle_client: the writer is closed but
\* stays in the client set.
cleanup_keeps_client(w, c) ==
    [w EXCEPT !.closes[c] = @ + 1]

\* The finally block of _handle_client up to its await: clients.discard
\* and writer.close(); the handler then suspends in writer.wait_closed().
cleanup(w, c) ==
    [w EXCEPT !.clients = @ \ {c}, !.closes[c] = @ + 1]

\* _process_command on a request for a custom handler that awaits, up to
\* that await: the handler's coroutine is suspended and with it the
\* connection's task.
process_command_await(w, command_name) ==
    Log(Log(w, Entry("process_command", command_name, None)),
        Entry("await", command_name, None))

\* The rest of that call after the handler has returned or raised: the
\* result, or handler_error, is written; the task then suspends in
\* writer.drain().
handler_return(w, c, raised) ==
    Log(w, Entry("write", c, IF raised THEN Error("handler_error")
                             ELSE Success("slow")))

\* start_server(): asyncio.start_server binds the address or raises
\* OSError; bound, the server listens and is_running is set; on a failure
\* the except clause clears is_running and the coroutine returns.
start_server(w, bound) ==
    IF bound
    THEN [w EXCEPT !.server = "listening", !.is_running = TRUE]
    ELSE [w EXCEPT !.is_running = FALSE]

\* Mutant of stop_server: no test of self.server before close().
stop_server_unchecked(w) ==
    [w |-> [w EXCEPT !.server = "closed"], ret |-> "pending"]

\* stop_server() up to its await: nothing when no server was started,
\* otherwise server.close(), which closes the listening socket only, and
\* the call suspends in server.wait_closed().
stop_server(w) ==
    IF w.server # None
    THEN [w |-> [w EXCEPT !.server = "closed"], ret |-> "pending"]
    ELSE [w |-> w, ret |-> "returned"]

\* stop_server() from the return of server.wait_closed() on.
stop_server_resume(w) ==
    [w EXCEPT !.is_running = FALSE]

\* The locals of a stop_server call: where it is suspended, and (history)
\* the connections that were open and those whose handler was awaiting a
\* custom command handler when the call began.
NoStop == [pc |-> "idle", open |-> {}, inflight |-> {}]

\* The locals of a broadcast_message call: where it is suspended, the writer
\* it is draining, the writers the for loop has visited, the size the client
\* set had when the iteration began (the set iterator raises RuntimeError
\* when the set has another size at the next step of the loop), the client
\* set at that time, and clients_to_remove.
NoBroadcast ==
    [pc |-> "idle", cur |-> None, visited |-> {}, size |-> 0,
     start |-> {}, to_remove |-> {}]

\* The for loop of broadcast_message takes its next writer: the iterator
\* raises RuntimeError if the set changed size; the loop ends when no writer
\* is left, and then the writers that failed are removed from the client
\* set; otherwise the message is written to the writer the iterator yields
\* (set order: any writer not visited yet) and the call suspends in
\* writer.drain().
broadcast_next(w, b, writer) ==
    IF Cardinality(w.clients) # b.size
    THEN [w |-> w, b |-> [b EXCEPT !.pc = "idle"], ret |-> "raised"]
    ELSE IF w.clients \ b.visited = {}
    THEN [w |-> [w EXCEPT !.clients = @ \ b.to_remove],
          b |-> [b EXCEPT !.pc = "idle"], ret |-> "returned"]
    ELSE [w |-> Log(w, Entry("broadcast_write", writer, None)),
          b |-> [b EXCEPT !.pc = "drain", !.cur = writer,
                          !.visited = @ \cup {writer}],
          ret |-> "pending"]

\* broadcast_message(message) up to its first await.
broadcast_message(w, writer) ==
    IF w.clients = {}
    THEN [w |-> w, b |-> NoBroadcast, ret |-> "returned"]
    ELSE broadcast_next(w, [NoBroadcast EXCEPT !.size = Cardinality(w.clients),
                                               !.start = w.clients],
                        writer)

\* broadcast_message from the return of writer.drain(), which raised
\* (failed) or not, up to the next await or the end of the call.
broadcast_resume(w, b, failed, writer) ==
    broadcast_next(w,
                   IF failed THEN [b EXCEPT !.to_remove = @ \cup {b.cur}] ELSE b,
                   writer)

-----------------------------------------------------------------------------
(* main.py : RobotFaceApp *)

Keys == {"K_1", "K_2", "K_3", "K_4", "K_r", "K_ESCAPE", "K_UP"}

\* A machine whose update returns to idle by itself.
forward_returns_to_idle(w, op) ==
    IF op = "update" THEN change_state(w, "idle", "none").w
    ELSE IF w.current # None THEN Log(w, Entry(op, w.current, None)) ELSE w

\* state_machine.handle_event / update / render: forwarded to the active
\* handler, if any. None of them touches the machine.
forward(w, op) ==
    IF w.current # None THEN Log(w, Entry(op, w.current, None)) ELSE w

\* The body of the for loop of handle_events, for one KEYDOWN event.
handle_key(w, key) ==
    LET w1 ==
          CASE key = "K_ESCAPE" -> [w EXCEPT !.running = FALSE]
            [] key = "K_1" -> change_state(w, "idle", "none").w
            [] key = "K_2" -> change_state(w, "thinking", "intensity").w
            [] key = "K_3" -> change_state(w, "speaking", "intensity").w
            [] key = "K_4" -> change_state(w, "sleeping", "none").w
            [] key = "K_r" -> change_state(w, "idle", "none").w
            [] OTHER -> w
    IN forward(w1, "handle_event")

RECURSIVE handle_events(_, _)
\* handle_events(): every queued event in turn.
handle_events(w, keys) ==
    IF keys = <<>> THEN w
    ELSE handle_events(handle_key(w, Head(keys)), Tail(keys))

\* One iteration of _run_async_game_loop up to its asyncio.sleep.
game_loop_iteration(w, keys) ==
    forward(forward(handle_events(w, keys), "update"), "render")

\* __init__: setup_states registers the four handlers and activates idle,
\* then setup_event_listeners subscribes the two callbacks.
AfterConstruction ==
    LET w0 == [states |-> EmptyDict, current |-> None, previous |-> None,
               active |-> [h \in AppHandlers |-> FALSE],
               listeners |-> EmptyDict, raising |-> {}, running |-> TRUE,
               clients |-> {}, handlers |-> DefaultHandlers,
               is_running |-> FALSE, server |-> None,
               closes |-> [c \in Conns |-> 0], trace |-> <<>>]
        w1 == add_state(add_state(add_state(add_state(w0,
                  "idle1"), "thinking1"), "speaking1"), "sleeping1")
        w2 == change_state(w1, "idle", "none").w
    IN subscribe(subscribe(w2, "STATE_CHANGED", "on_state_changed"),
                 "COMMAND_RECEIVED", "on_command_received")

-----------------------------------------------------------------------------
(* The variables as one world record, and back *)

World ==
    [states |-> states, current |-> current_state,
     previous |-> previous_state, active |-> is_active,
     listeners |-> listeners, raising |-> raising,
     running |-> running, clients |-> clients,
     handlers |-> command_handlers, is_running |-> is_running,
     server |-> server, closes |-> closes, trace |-> <<>>]

\* The fields an operation may change, as they are before it runs.
Snapshot ==
    [states |-> states, current |-> current_state,
     previous |-> previous_state, active |-> is_active,
     listeners |-> listeners, clients |-> clients,
     is_running |-> is_running, server |-> server, closes |-> closes]

\* A call: the operation, its first and second argument, and its result.
Call(op, arg, extra, ret) ==
    [op |-> op, arg |-> arg, extra |-> extra, ret |-> ret]

NoRun == [name |-> None, len |-> 0, enters |-> 0, emits |-> 0, first |-> None]

Count(t, op) == Len(SelectSeq(t, LAMBDA e : e.op = op))

\* The run of consecutive change_state(name) calls after one more call.
\* first records what the first call of the run did.
NextRun(name, r) ==
    LET did == IF r.ret = "True" /\ r.w.trace # <<>> THEN "transition"
               ELSE IF r.ret = "True" THEN "noop"
               ELSE r.ret
    IN IF run.name = name
       THEN [run EXCEPT !.len = @ + 1,
                        !.enters = @ + Count(r.w.trace, "enter"),
                        !.emits = @ + Count(r.w.trace, "emit")]
       ELSE [name |-> name, len |-> 1,
             enters |-> Count(r.w.trace, "enter"),
             emits |-> Count(r.w.trace, "emit"), first |-> did]

\* The variables of the machine and the bus after an operation that left
\* the world w.
CommitMachine(w, call) ==
    /\ states' = w.states
    /\ current_state' = w.current
    /\ previous_state' = w.previous
    /\ is_active' = w.active
    /\ listeners' = w.listeners
    /\ running' = w.running
    /\ trace' = w.trace
    /\ lastCall' = call
    /\ pre' = Snapshot
    /\ UNCHANGED <<raising, appVars, netVars>>

\* The variables after an operation that left the world w and did not
\* touch the fields of the handlers.
Commit(w, call) ==
    /\ CommitMachine(w, call)
    /\ UNCHANGED handlerVars

-----------------------------------------------------------------------------
(* Spec: the state machine driven by arbitrary calls of its three mutators *)

InitCommon ==
    /\ states = EmptyDict
    /\ current_state = None
    /\ previous_state = None
    /\ is_active = [h \in Handlers |-> FALSE]
    /\ trace = <<>>
    /\ lastCall = Call("init", None, None, None)
    /\ run = NoRun
    /\ running = TRUE
    /\ clients = {}
    /\ pc = [t \in Tasks |-> "none"]
    /\ stepper = None
    /\ command_handlers = DefaultHandlers
    /\ is_running = FALSE
    /\ server = None
    /\ lines = [c \in Conns |-> 0]
    /\ replies = [c \in Conns |-> <<>>]
    /\ partial = [c \in Conns |-> FALSE]
    /\ bc = NoBroadcast
    /\ closes = [c \in Conns |-> 0]
    /\ stop = NoStop
    /\ handler_fields = [h \in Handlers \cup AppHandlers |-> NewFields]
    /\ ticks = 0
    /\ info = NoInfo

Init ==
    /\ InitCommon
    /\ listeners \in {EmptyDict,
                      [k \in {"STATE_CHANGED"} |-> <<"cbA", "cbB">>]}
    /\ raising \in {{}, {"cbA"}}
    /\ pre = Snapshot

AddState(h) ==
    /\ Commit(add_state(World, h), Call("add_state", h, None, None))
    /\ run' = NoRun

RemoveState(name) ==
    /\ Commit(remove_state(World, name), Call("remove_state", name, None, None))
    /\ run' = NoRun

ChangeState(name, kwargs) ==
    LET r == change_state(World, name, kwargs) IN
    /\ run.name = name => run.len < MaxRun
    /\ Commit(r.w, Call("change_state", name, kwargs, r.ret))
    /\ run' = NextRun(name, r)

Next ==
    \/ \E h \in Handlers : AddState(h)
    \/ \E name \in CallNames : RemoveState(name)
    \/ \E name \in CallNames, kwargs \in Kwargs : ChangeState(name, kwargs)

Spec == Init /\ [][Next]_vars

-----------------------------------------------------------------------------
(* Claims about the state machine, checked under Spec *)

\* The listener list an emit of kind k iterates over.
ListenersOf(L, k) == IF k \in DOMAIN L THEN L[k] ELSE <<>>

\* The last operation was change_state and performed a transition A -> B:
\* a handler A was active, B is registered, B # A, and the call returned True.
TransitionDone ==
    /\ lastCall.op = "change_state"
    /\ lastCall.ret = "True"
    /\ pre.current # None
    /\ NameOf(pre.current) # lastCall.arg

\* C1: for every successful transition A -> B the trace of the call is
\* A.exit(), then B.enter(), then the emit of STATE_CHANGED, then the
\* delivery to every subscriber in order: exit strictly before enter, enter
\* complete before any delivery, and no emit between exit and enter.
C1_ExitEnterEmitOrder ==
    TransitionDone =>
        LET subs == ListenersOf(pre.listeners, "STATE_CHANGED") IN
        /\ Len(trace) = 3 + Len(subs)
        /\ trace[1].op = "exit" /\ trace[1].h = pre.current
        /\ trace[2].op = "enter" /\ trace[2].h = pre.states[lastCall.arg]
        /\ trace[3].op = "emit" /\ trace[3].h = "STATE_CHANGED"
        /\ trace[3].ev.data.previous_state = NameOf(pre.current)
        /\ trace[3].ev.data.current_state = lastCall.arg
        /\ \A i \in 1..Len(subs) :
              trace[3 + i].op = "call" /\ trace[3 + i].h = subs[i]

\* C1 witness: a transition between two handlers was delivered to two
\* subscribers.
C1_Witness ==
    /\ TransitionDone
    /\ Len(ListenersOf(pre.listeners, "STATE_CHANGED")) = 2
    /\ Len(trace) = 5

\* The fields of the machine are as they were before the last operation.
MachineUnchanged ==
    /\ states = pre.states
    /\ current_state = pre.current
    /\ previous_state = pre.previous
    /\ is_active = pre.active

\* C2: change_state with a name that is not in the registry returns False,
\* calls no exit() or enter(), emits nothing, and leaves the active state,
\* previous_state_name and the registry unchanged.
C2_UnknownStateRejected ==
    (lastCall.op = "change_state" /\ lastCall.arg \notin DOMAIN pre.states) =>
        /\ lastCall.ret = "False"
        /\ trace = <<>>
        /\ MachineUnchanged

\* C2 witness: an unknown name was requested while a handler was active and
\* a previous state name was recorded.
C2_Witness ==
    /\ lastCall.op = "change_state"
    /\ lastCall.arg \notin DOMAIN pre.states
    /\ pre.current # None
    /\ pre.previous # None

\* C3: change_state(X) while X is the active state returns True with no
\* exit(), no enter() and no emit; hence a run of consecutive
\* change_state(X) calls that began with a transition to X has run enter()
\* once and emitted STATE_CHANGED once, however long the run, and no run
\* enters or emits more than once.
C3_IdempotentReentry ==
    /\ (/\ lastCall.op = "change_state"
        /\ pre.current # None
        /\ NameOf(pre.current) = lastCall.arg)
       => (lastCall.ret = "True" /\ trace = <<>> /\ MachineUnchanged)
    /\ run.enters <= 1 /\ run.emits <= 1
    /\ run.first = "transition" => (run.enters = 1 /\ run.emits = 1)

\* C3 witness: a third consecutive change_state(X) after the transition to X.
C3_Witness ==
    /\ run.first = "transition"
    /\ run.len = 3
    /\ lastCall.op = "change_state"
    /\ trace = <<>>

ActiveHandlers == {h \in Handlers : is_active[h]}

\* C4: at most one state handler has is_active = true.
C4_AtMostOneActive == Cardinality(ActiveHandlers) <= 1

\* C4 witness: a transition has just moved the activity from one handler to
\* another.
C4_Witness ==
    /\ TransitionDone
    /\ pre.active[pre.current]
    /\ ActiveHandlers = {current_state}
    /\ current_state # pre.current

\* C5 (as claimed): the active handler, if present, is the handler object
\* stored in the registry under its name.
C5_ActiveIsRegistered ==
    current_state # None =>
        /\ NameOf(current_state) \in DOMAIN states
        /\ states[NameOf(current_state)] = current_state

\* The last operation was remove_state(name) and ...
RemovedActive ==
    /\ lastCall.op = "remove_state"
    /\ lastCall.arg \in DOMAIN pre.states
    /\ pre.current # None
    /\ NameOf(pre.current) = lastCall.arg

RemovedInactive ==
    /\ lastCall.op = "remove_state"
    /\ lastCall.arg \in DOMAIN pre.states
    /\ ~(pre.current # None /\ NameOf(pre.current) = lastCall.arg)

RemovedUnknown ==
    /\ lastCall.op = "remove_state"
    /\ lastCall.arg \notin DOMAIN pre.states

\* C6: remove_state(name) of the active state calls its exit() and clears
\* the active pointer before the registry entry is deleted; of a registered
\* state that is not active it only deletes the entry and leaves the active
\* state alone; of an unregistered name it changes nothing.
C6_RemoveState ==
    /\ RemovedActive =>
          /\ Len(trace) = 2
          /\ trace[1].op = "exit" /\ trace[1].h = pre.current
          /\ trace[2].op = "del" /\ trace[2].h = lastCall.arg
          /\ current_state = None
          /\ is_active = [pre.active EXCEPT ![pre.current] = FALSE]
          /\ states = DictDel(pre.states, lastCall.arg)
    /\ RemovedInactive =>
          /\ Len(trace) = 1 /\ trace[1].op = "del"
          /\ states = DictDel(pre.states, lastCall.arg)
          /\ current_state = pre.current
          /\ previous_state = pre.previous
          /\ is_active = pre.active
    /\ RemovedUnknown => (trace = <<>> /\ MachineUnchanged)

\* C6 witness: the active state was removed while another stayed registered.
C6_Witness ==
    /\ RemovedActive
    /\ pre.active[pre.current]
    /\ DOMAIN states # {}

-----------------------------------------------------------------------------
(* SpecBus: the event bus driven by arbitrary calls, with opaque callbacks *)

InitBus ==
    /\ InitCommon
    /\ listeners = EmptyDict
    /\ raising \in SUBSET Callbacks
    /\ pre = Snapshot

Subscribe(event_type, callback) ==
    /\ Commit(subscribe(World, event_type, callback),
              Call("subscribe", event_type, callback, "returned"))
    /\ UNCHANGED run

Unsubscribe(event_type, callback) ==
    LET r == unsubscribe(World, event_type, callback) IN
    /\ Commit(r.w, Call("unsubscribe", event_type, callback,
                        IF r.exc THEN "raised" ELSE "returned"))
    /\ UNCHANGED run

Emit(event_type) ==
    LET r == emit(World, event_type, [command |-> "none"]) IN
    /\ Commit(r.w, Call("emit", event_type, None,
                        IF r.exc THEN "raised" ELSE "returned"))
    /\ UNCHANGED run

ClearListeners(event_type) ==
    /\ Commit(clear_listeners(World, event_type),
              Call("clear_listeners", event_type, None, "returned"))
    /\ UNCHANGED run

NextBus ==
    \/ \E event_type \in EventTypes, callback \in Callbacks :
          Subscribe(event_type, callback)
    \/ \E event_type \in EventTypes, callback \in Callbacks :
          Unsubscribe(event_type, callback)
    \/ \E event_type \in EventTypes : Emit(event_type)
    \/ \E event_type \in EventTypes \cup {None} : ClearListeners(event_type)

SpecBus == InitBus /\ [][NextBus]_vars

-----------------------------------------------------------------------------
(* Claims about the event bus, checked under SpecBus *)

\* The callbacks an operation invoked, in the order of invocation.
Invoked(t) ==
    LET calls == SelectSeq(t, LAMBDA e : e.op = "call")
    IN [i \in 1..Len(calls) |-> calls[i].h]

\* The listeners of the kind the last operation was called with, before it.
SubscribedBefore == ListenersOf(pre.listeners, lastCall.arg)

\* C8: emit(kind, data) invokes every callback subscribed to kind exactly
\* once, in subscription order, invokes no callback that is subscribed only
\* to another kind, and has made every invocation when it returns.
C8_EmitFanOut ==
    lastCall.op = "emit" =>
        /\ Invoked(trace) = SubscribedBefore
        /\ \A i \in 1..Len(trace) :
              trace[i].op = "call" => trace[i].ev.type = lastCall.arg
        /\ \A c \in Callbacks :
              Len(SelectSeq(Invoked(trace), LAMBDA x : x = c))
                  = (IF c \in Range(SubscribedBefore) THEN 1 ELSE 0)

\* C8 witness: an emit to two subscribers, the later-named one subscribed
\* first, while a third callback is subscribed to the other kind.
C8_Witness ==
    /\ lastCall.op = "emit"
    /\ Invoked(trace) = <<"cbC", "cbA">>
    /\ \E k \in DOMAIN pre.listeners :
          k # lastCall.arg /\ "cbB" \in Range(pre.listeners[k])

\* C9: if a callback subscribed to a kind raises during emit, every
\* callback subscribed after it is still invoked, in order, and emit
\* returns normally.
C9_RaisingCallbackIsolated ==
    (lastCall.op = "emit" /\ Range(SubscribedBefore) \cap raising # {}) =>
        /\ lastCall.ret = "returned"
        /\ \A k \in 1..Len(SubscribedBefore) :
              SubscribedBefore[k] \in raising =>
                  /\ Len(Invoked(trace)) = Len(SubscribedBefore)
                  /\ \A j \in (k + 1)..Len(SubscribedBefore) :
                        Invoked(trace)[j] = SubscribedBefore[j]

\* C9 witness: the first of three subscribers raised and the other two ran.
C9_Witness ==
    /\ lastCall.op = "emit"
    /\ Len(SubscribedBefore) = 3
    /\ SubscribedBefore[1] \in raising
    /\ SubscribedBefore[3] \notin raising
    /\ Len(Invoked(trace)) = 3

\* C10: every callback appears at most once in the listener list of each
\* kind; subscribing an already subscribed (kind, callback) pair changes
\* neither the list nor the callback's position; unsubscribing a callback
\* that is not subscribed, or a kind that has no list, changes nothing and
\* does not raise.
C10_SubscriptionsUnique ==
    /\ \A k \in DOMAIN listeners : NoDuplicates(listeners[k])
    /\ (lastCall.op = "subscribe" /\ lastCall.extra \in Range(SubscribedBefore))
          => listeners = pre.listeners
    /\ (lastCall.op = "unsubscribe" /\ lastCall.extra \notin Range(SubscribedBefore))
          => (listeners = pre.listeners /\ lastCall.ret = "returned")

\* C10 witness: a duplicate subscribe of the first of two subscribers.
C10_Witness ==
    /\ lastCall.op = "subscribe"
    /\ Len(SubscribedBefore) = 2
    /\ SubscribedBefore[1] = lastCall.extra
    /\ listeners[lastCall.arg] = SubscribedBefore

\* The last operation was clear_listeners and it covered kind k.
Cleared(k) ==
    /\ lastCall.op = "clear_listeners"
    /\ lastCall.arg \in {k, None}

\* C11: clear_listeners(kind) leaves kind without subscribers and the list
\* of every other kind as it was; clear_listeners() leaves no kind with a
\* subscriber; and an emit that directly follows a clear, for a kind the
\* clear covered, invokes no callback.
C11_ClearListeners ==
    /\ [](\A k \in EventTypes :
             /\ Cleared(k) => ListenersOf(listeners, k) = <<>>
             /\ (lastCall.op = "clear_listeners" /\ ~Cleared(k)) =>
                   /\ (k \in DOMAIN listeners) = (k \in DOMAIN pre.listeners)
                   /\ ListenersOf(listeners, k) = ListenersOf(pre.listeners, k))
    /\ [][\A k \in EventTypes :
             (Cleared(k) /\ lastCall'.op = "emit" /\ lastCall'.arg = k)
                 => Invoked(trace') = <<>>]_vars

\* C11 witness: one kind with two subscribers was cleared while the other
\* kind kept its subscriber.
C11_Witness ==
    /\ lastCall.op = "clear_listeners"
    /\ lastCall.arg = "STATE_CHANGED"
    /\ Len(ListenersOf(pre.listeners, "STATE_CHANGED")) = 2
    /\ listeners["STATE_CHANGED"] = <<>>
    /\ Len(ListenersOf(listeners, "COMMAND_RECEIVED")) = 1

-----------------------------------------------------------------------------
(* SpecApp: the application, its game loop and its connection handlers as  *)
(* tasks of one event loop. A step is what a task runs between two awaits. *)

\* The request objects a client may send. The parameters of change_state
\* are absent, an ordinary parameter, or hold a key "previous_state" or
\* "state_name"; "custom" is the command of a custom handler.
Requests ==
    {Request("change_state", n, k) :
         n \in {"idle", "thinking", "nonexistent"},
         k \in {None, "intensity", "previous_state", "state_name"}}
    \cup {Request("change_state", None, None), Request("shutdown", None, None),
          Request("ping", None, None), Request("get_status", None, None),
          Request("set_parameter", None, "intensity"),
          Request("set_parameter", None, None),
          Request("custom", None, None),
          Request("bogus", None, None), Request(None, None, None)}

\* One read that holds exactly one line: a request object, or a number.
OneLine(kind, value) == <<Piece("line", kind, value)>>

DataApp ==
    {OneLine("object", r) : r \in Requests} \cup {OneLine("number", NoRequest)}

KeySeqs == UNION {[1..n -> Keys] : n \in 0..MaxKeys}

\* The application after construction, with the command server listening
\* and a custom handler that raises registered by add_command_handler;
\* every task starts at the position pc0 gives it.
InitTasks(pc0) ==
    LET w == add_command_handler(AfterConstruction, "custom", "raises") IN
    /\ states = w.states
    /\ current_state = w.current
    /\ previous_state = w.previous
    /\ is_active = w.active
    /\ listeners = w.listeners
    /\ raising = w.raising
    /\ running = w.running
    /\ clients = w.clients
    /\ command_handlers = w.handlers
    /\ is_running = TRUE
    /\ server = "listening"
    /\ lines = [c \in Conns |-> 0]
    /\ replies = [c \in Conns |-> <<>>]
    /\ partial = [c \in Conns |-> FALSE]
    /\ bc = NoBroadcast
    /\ closes = w.closes
    /\ stop = NoStop
    /\ handler_fields = [h \in Handlers \cup AppHandlers |-> NewFields]
    /\ ticks = 0
    /\ info = NoInfo
    /\ trace = <<>>
    /\ lastCall = Call("init", None, None, None)
    /\ pre = Snapshot
    /\ run = NoRun
    /\ pc = pc0
    /\ stepper = None

\* The game loop is suspended in its sleep and no client is connected.
InitApp ==
    InitTasks([t \in Tasks |-> IF t = "loop" THEN "sleep"
                               ELSE IF t \in Conns THEN "closed" ELSE "none"])

\* The variables after task t ran a step that left the world w.
CommitStep(t, w, call) ==
    /\ states' = w.states
    /\ current_state' = w.current
    /\ previous_state' = w.previous
    /\ is_active' = w.active
    /\ listeners' = w.listeners
    /\ running' = w.running
    /\ clients' = w.clients
    /\ is_running' = w.is_running
    /\ server' = w.server
    /\ closes' = w.closes
    /\ trace' = w.trace
    /\ lastCall' = call
    /\ stepper' = t
    /\ pre' = Snapshot
    /\ UNCHANGED <<raising, run, command_handlers, handlerVars>>

\* _handle_client up to its first reader.read: the writer joins the clients.
Connect(c) ==
    /\ pc[c] \in {"none", "closed"}
    /\ server = "listening"
    /\ CommitStep(c, accept(World, c), Call("connect", c, None, None))
    /\ pc' = [pc EXCEPT ![c] = "read"]
    /\ lines' = [lines EXCEPT ![c] = 0]
    /\ replies' = [replies EXCEPT ![c] = <<>>]
    /\ partial' = [partial EXCEPT ![c] = FALSE]
    /\ UNCHANGED <<bc, stop>>

\* reader.read returned data: one pass of the loop body. After a write the
\* handler suspends in writer.drain(); after a skipped message it is back in
\* reader.read.
ReceiveStep(c, data) ==
    /\ pc[c] = "read"
    /\ CommitStep(c, handle_data(World, c, data),
                  Call("receive", c, data, None))
    /\ pc' = [pc EXCEPT ![c] = IF Count(trace', "write") > 0
                                THEN "drain" ELSE "read"]

Receive(c, data) ==
    /\ ReceiveStep(c, data)
    /\ UNCHANGED <<connVars, bc, stop>>

\* writer.drain returned: back to reader.read.
Drained(c) ==
    /\ pc[c] = "drain"
    /\ CommitStep(c, World, Call("drained", c, None, None))
    /\ pc' = [pc EXCEPT ![c] = "read"]
    /\ UNCHANGED <<connVars, bc, stop>>

\* reader.read returned no data: leave the loop, discard the writer, close
\* it and suspend in wait_closed.
EndOfStream(c) ==
    /\ pc[c] = "read"
    /\ CommitStep(c, cleanup(World, c), Call("eof", c, None, None))
    /\ pc' = [pc EXCEPT ![c] = "closing"]
    /\ UNCHANGED <<connVars, bc, stop>>

\* writer.wait_closed returned: the handler ends.
Closed(c) ==
    /\ pc[c] = "closing"
    /\ CommitStep(c, World, Call("closed", c, None, None))
    /\ pc' = [pc EXCEPT ![c] = "closed"]
    /\ UNCHANGED <<connVars, bc, stop>>

\* asyncio.sleep returned with running set: one more iteration.
Tick(keys) ==
    /\ pc["loop"] = "sleep"
    /\ running
    /\ CommitStep("loop", game_loop_iteration(World, keys),
                  Call("tick", keys, None, None))
    /\ UNCHANGED <<pc, connVars, bc, stop>>

\* asyncio.sleep returned with running cleared: the game loop ends.
LoopExit ==
    /\ pc["loop"] = "sleep"
    /\ ~running
    /\ CommitStep("loop", World, Call("loop_exit", None, None, None))
    /\ pc' = [pc EXCEPT !["loop"] = "done"]
    /\ UNCHANGED <<connVars, bc, stop>>

NextApp ==
    \/ \E c \in Conns : Connect(c)
    \/ \E c \in Conns, data \in DataApp : Receive(c, data)
    \/ \E c \in Conns : Drained(c)
    \/ \E c \in Conns : EndOfStream(c)
    \/ \E c \in Conns : Closed(c)
    \/ \E keys \in KeySeqs : Tick(keys)
    \/ LoopExit

SpecApp == InitApp /\ [][NextApp]_vars

-----------------------------------------------------------------------------
(* Claims about the tasks of the application, checked under SpecApp *)

\* The calls the tick loop makes on the machine's active handler.
TickLoopOps == {"handle_event", "update", "render"}

\* The transition whose exit() is the i-th call of the step is whole: the
\* next call of the step is the new handler's enter(), followed by the emit
\* of STATE_CHANGED and its delivery to every subscriber (or enter() raised
\* and the call ended there).
WholeTransitionAt(i) ==
    LET subs == ListenersOf(listeners, "STATE_CHANGED") IN
    /\ i < Len(trace)
    /\ \/ trace[i + 1].op = "enter_raised"
       \/ /\ trace[i + 1].op = "enter"
          /\ Len(trace) >= i + 2 + Len(subs)
          /\ trace[i + 2].op = "emit" /\ trace[i + 2].h = "STATE_CHANGED"
          /\ \A j \in 1..Len(subs) :
                trace[i + 2 + j].op = "call" /\ trace[i + 2 + j].h = subs[j]

\* C7: a change_state triggered by a network command runs exit, enter and
\* the delivery of STATE_CHANGED inside one step of the connection's task:
\* every exit() of a step is followed in that step by the enter() and the
\* complete delivery, the step holds no call of the tick loop and no second
\* command, and a step of the tick loop handles no command; so whenever
\* another task runs, no transition is between its exit() and the end of
\* its delivery.
C7_TransitionWithoutSuspension ==
    /\ \A i \in 1..Len(trace) : trace[i].op = "exit" => WholeTransitionAt(i)
    /\ stepper \in Conns =>
          /\ \A i \in 1..Len(trace) : trace[i].op \notin TickLoopOps
          /\ Count(trace, "process_command") <= 1
    /\ stepper = "loop" =>
          \A i \in 1..Len(trace) : trace[i].op \notin {"process_command", "write"}

\* C7 witness: a connection's change_state command exited idle, entered
\* thinking and delivered STATE_CHANGED while the other connection was
\* suspended in drain and the game loop in sleep.
C7_Witness ==
    /\ stepper = "c1"
    /\ lastCall.op = "receive"
    /\ Count(trace, "exit") = 1
    /\ Count(trace, "enter") = 1
    /\ \E i \in 1..Len(trace) :
          trace[i].op = "call" /\ trace[i].h = "on_state_changed"
    /\ pc["c2"] = "drain"
    /\ pc["loop"] = "sleep"
    /\ current_state = "thinking1" /\ is_active["thinking1"]

-----------------------------------------------------------------------------
(* Claims about the built-in command handlers, checked under SpecApp *)

\* The last step was a read whose message decoded to a request object /
\* to some JSON value.
DecodedObject ==
    /\ lastCall.op = "receive"
    /\ Len(lastCall.extra) = 1
    /\ lastCall.extra[1].part = "line"
    /\ lastCall.extra[1].kind = "object"

DecodedValue ==
    /\ lastCall.op = "receive"
    /\ Len(lastCall.extra) = 1
    /\ lastCall.extra[1].part = "line"
    /\ lastCall.extra[1].kind \in {"object", "number"}

LastRequest == lastCall.extra[1].value

\* The response lines the last step wrote, and the events it emitted.
Writes(t) == SelectSeq(t, LAMBDA e : e.op = "write")

CommandEvents(t) ==
    SelectSeq(t, LAMBDA e : e.op = "emit" /\ e.h = "COMMAND_RECEIVED")

ErrorKinds ==
    {"invalid_json", "missing_command", "unknown_command", "handler_error",
     "missing_state", "missing_parameters", "processing_error"}

\* The error the claim assigns to the last decoded request, None when the
\* request does not fail.
ExpectedError ==
    IF lastCall.extra[1].kind = "number" THEN "processing_error"
    ELSE IF LastRequest.command = None THEN "missing_command"
    ELSE IF LastRequest.command \notin DOMAIN command_handlers
    THEN "unknown_command"
    ELSE IF command_handlers[LastRequest.command] = "raises"
    THEN "handler_error"
    ELSE IF LastRequest.command = "change_state" /\ LastRequest.state = None
    THEN "missing_state"
    ELSE IF /\ LastRequest.command = "set_parameter"
            /\ LastRequest.parameters = None
    THEN "missing_parameters"
    ELSE None

\* C13: every decoded request that fails is answered with exactly one
\* error line, written to the connection that sent it, whose error is the
\* recognized kind of that failure; the connection is still in the client
\* set and its handler goes on to the next read.
C13_FailedRequestOneErrorLine ==
    (DecodedValue /\ ExpectedError # None) =>
        /\ Len(Writes(trace)) = 1
        /\ Writes(trace)[1].h = lastCall.arg
        /\ ~Writes(trace)[1].ev.success
        /\ Writes(trace)[1].ev.error = ExpectedError
        /\ Writes(trace)[1].ev.error \in ErrorKinds
        /\ lastCall.arg \in clients
        /\ pc[lastCall.arg] = "drain"

\* C13 witness: the custom handler raised and the client got handler_error
\* while the other connection was open as well.
C13_Witness ==
    /\ DecodedObject
    /\ LastRequest.command = "custom"
    /\ Writes(trace)[1].ev.error = "handler_error"
    /\ clients = Conns
    /\ pc[lastCall.arg] = "drain"

\* The parameters a change_state event and response carry for the last
\* request: the given ones, or the empty map.
GivenParameters ==
    IF LastRequest.parameters = None THEN "none" ELSE LastRequest.parameters

\* C16: a change_state command with a state field emits exactly one
\* COMMAND_RECEIVED event carrying command = change_state, the state and the
\* parameters, and is answered with success, the state and the parameters,
\* whether the state is registered or not; for an unregistered state the
\* machine is left as it was.
C16_ChangeStateDecoupled ==
    (/\ DecodedObject
     /\ LastRequest.command = "change_state"
     /\ LastRequest.state # None) =>
        /\ Len(CommandEvents(trace)) = 1
        /\ CommandEvents(trace)[1].ev.data
              = CommandData("change_state", LastRequest.state, GivenParameters)
        /\ Len(Writes(trace)) = 1
        /\ Writes(trace)[1].h = lastCall.arg
        /\ Writes(trace)[1].ev.success
        /\ Writes(trace)[1].ev.state = LastRequest.state
        /\ Writes(trace)[1].ev.parameters = GivenParameters
        /\ LastRequest.state \notin DOMAIN pre.states => MachineUnchanged

\* C16 witness: success was written for an unregistered state while
\* thinking was active, and thinking is still active.
C16_Witness ==
    /\ DecodedObject
    /\ LastRequest.command = "change_state"
    /\ LastRequest.state = "nonexistent"
    /\ LastRequest.parameters = "intensity"
    /\ Writes(trace)[1].ev.success
    /\ pre.current = "thinking1"
    /\ current_state = "thinking1"

\* The last request was accepted by a handler that emits COMMAND_RECEIVED
\* before it answers.
AcceptedCommand ==
    /\ DecodedObject
    /\ \/ LastRequest.command = "change_state" /\ LastRequest.state # None
       \/ LastRequest.command = "set_parameter"
            /\ LastRequest.parameters # None
       \/ LastRequest.command = "shutdown"

\* C17 (as claimed): for an accepted change_state, set_parameter or
\* shutdown, every subscriber of COMMAND_RECEIVED has been called before
\* the response line is written; and when success is written for a
\* change_state to a registered state, that state is the machine's active
\* state.
C17_DeliveredBeforeResponse ==
    AcceptedCommand =>
        /\ Invoked(trace)[1] = "on_command_received"
        /\ \A i, j \in 1..Len(trace) :
              (trace[i].op = "call" /\ trace[j].op = "write") => i < j
        /\ (/\ LastRequest.command = "change_state"
            /\ LastRequest.state \in DOMAIN pre.states
            /\ Writes(trace)[1].ev.success)
           => (/\ current_state # None
               /\ NameOf(current_state) = LastRequest.state)

\* C19: a shutdown command emits one COMMAND_RECEIVED event with command =
\* shutdown and is answered with success; is_running, the listening socket
\* and the client set are as before, and the issuing connection stays open.
C19_ShutdownOnlySignals ==
    (DecodedObject /\ LastRequest.command = "shutdown") =>
        /\ Len(CommandEvents(trace)) = 1
        /\ CommandEvents(trace)[1].ev.data
              = CommandData("shutdown", None, None)
        /\ Len(Writes(trace)) = 1
        /\ Writes(trace)[1].h = lastCall.arg
        /\ Writes(trace)[1].ev = Success("shutdown")
        /\ is_running = pre.is_running
        /\ server = pre.server
        /\ clients = pre.clients
        /\ lastCall.arg \in clients
        /\ pc[lastCall.arg] = "drain"

\* C19 witness: a shutdown command was answered while both connections were
\* open; the application has cleared its running flag and the server is
\* still listening.
C19_Witness ==
    /\ DecodedObject
    /\ LastRequest.command = "shutdown"
    /\ clients = Conns
    /\ ~running
    /\ is_running
    /\ server = "listening"

\* The last request was refused by _process_command or by a built-in
\* handler before any event.
RejectedRequest ==
    /\ DecodedObject
    /\ ExpectedError \in {"missing_command", "unknown_command",
                          "missing_state", "missing_parameters"}

\* The last request was a set_parameter or a get_status.
ReadOnlyCommand ==
    /\ DecodedObject
    /\ LastRequest.command \in {"set_parameter", "get_status"}

\* C40: a request rejected with missing_command, unknown_command,
\* missing_state or missing_parameters emits no COMMAND_RECEIVED event, nor
\* does ping; an accepted change_state, set_parameter or shutdown emits
\* exactly one; and a set_parameter or get_status request leaves the
\* machine (registry, active handler, previous name, activity flags) and
\* the application's running flag as they were.
C40_EventsPerRequest ==
    /\ [](RejectedRequest => CommandEvents(trace) = <<>>)
    /\ []((DecodedObject /\ LastRequest.command = "ping")
             => CommandEvents(trace) = <<>>)
    /\ [](AcceptedCommand => Len(CommandEvents(trace)) = 1)
    /\ [](ReadOnlyCommand => MachineUnchanged)
    /\ [][ReadOnlyCommand' => running' = running]_vars

\* C40 witness: an accepted set_parameter emitted its one event while
\* thinking was active, and thinking is still active.
C40_Witness ==
    /\ AcceptedCommand
    /\ LastRequest.command = "set_parameter"
    /\ Len(CommandEvents(trace)) = 1
    /\ Invoked(trace) = <<"on_command_received">>
    /\ pre.current = "thinking1"
    /\ current_state = "thinking1"
    /\ running


-----------------------------------------------------------------------------
(* SpecConn: the connection handlers of the command server, fed with the   *)
(* bytes of their connections however TCP groups them into reads           *)

PingRequest == Request("ping", None, None)

StatusRequest == Request("get_status", None, None)

\* What one read may return: one line (a ping, a get_status, text that is
\* not JSON, or nothing but the newline), an empty line and a ping, two
\* requests that arrived together, or a ping split in two reads.
DataConn ==
    {OneLine("object", PingRequest), OneLine("object", StatusRequest),
     OneLine("garbage", NoRequest), OneLine("empty", NoRequest),
     <<Piece("line", "empty", NoRequest), Piece("line", "object", PingRequest)>>,
     <<Piece("line", "object", PingRequest),
       Piece("line", "object", StatusRequest)>>,
     <<Piece("head", "object", PingRequest)>>,
     <<Piece("tail", "object", PingRequest)>>}

\* The complete non-empty lines that end in the data of one read.
NonEmptyLines(data) ==
    Cardinality({i \in 1..Len(data) :
                    data[i].part \in {"line", "tail"} /\ data[i].kind # "empty"})

\* What a response line says: its error, or the command it answers.
ReplyKind(response) ==
    IF response.success THEN response.command ELSE response.error

InitConn ==
    InitTasks([t \in Tasks |-> IF t \in Conns THEN "closed" ELSE "none"])

\* reader.read returned data, with the lines received and the responses
\* written counted per connection. A read starts with the tail of a line
\* exactly when the read before ended inside that line.
ReceiveLines(c, data) ==
    /\ lines[c] < MaxLines
    /\ Len(replies[c]) < MaxLines
    /\ partial[c] = (data[1].part = "tail")
    /\ ReceiveStep(c, data)
    /\ lines' = [lines EXCEPT ![c] = @ + NonEmptyLines(data)]
    /\ replies' = [replies EXCEPT ![c] =
                      @ \o [i \in 1..Len(Writes(trace')) |->
                               ReplyKind(Writes(trace')[i].ev)]]
    /\ partial' = [partial EXCEPT ![c] = data[Len(data)].part = "head"]
    /\ UNCHANGED <<bc, stop>>

NextConn ==
    \/ \E c \in Conns : Connect(c)
    \/ \E c \in Conns, data \in DataConn : ReceiveLines(c, data)
    \/ \E c \in Conns : Drained(c)
    \/ \E c \in Conns : EndOfStream(c)
    \/ \E c \in Conns : Closed(c)

SpecConn == InitConn /\ [][NextConn]_vars

-----------------------------------------------------------------------------
(* Claims about the read loop, checked under SpecConn *)

\* The message of a read, white space at both ends aside, is empty / is one
\* complete JSON text.
BlankMessage(data) == \A i \in 1..Len(data) : IsBlank(data[i])

OneJsonText(data) ==
    \E i \in 1..Len(data) :
        /\ data[i].part = "line"
        /\ data[i].kind \in {"object", "number"}
        /\ \A j \in 1..Len(data) : j # i => IsBlank(data[j])

\* The last step was a read on connection c of a message that is not valid
\* JSON.
ReceivedInvalid(c) ==
    /\ lastCall.op = "receive"
    /\ lastCall.arg = c
    /\ ~BlankMessage(lastCall.extra)
    /\ ~OneJsonText(lastCall.extra)

C14_OneResponsePerLine ==
    \A c \in Conns :
        (pc[c] \in {"read", "drain"} /\ ~partial[c])
            => Len(replies[c]) = lines[c]

\* C15 (as claimed): when a connection's request i+1 is read, the responses
\* to its requests 1..i have been written; and the step that processes a
\* connection's request writes to that connection only.
C15_SequentialPerConnection ==
    [][\A c \in Conns :
          /\ lines'[c] > lines[c] => Len(replies[c]) >= lines'[c] - 1
          /\ (lastCall'.op = "receive" /\ lastCall'.arg = c) =>
                \A i \in 1..Len(trace') :
                    trace'[i].op = "write" => trace'[i].h = c]_vars

-----------------------------------------------------------------------------
(* SpecCast: the command server with its connection handlers and a caller  *)
(* of broadcast_message as tasks of one event loop                         *)

DataCast == {OneLine("object", PingRequest), OneLine("object", StatusRequest)}

\* The writers the set iterator may yield next: any not visited yet.
NextWriters(b) ==
    IF clients \ b.visited = {} THEN {None} ELSE clients \ b.visited

\* The variables after a step of the broadcast that returned r.
CommitBroadcast(r) ==
    /\ CommitStep("caller", r.w, Call("broadcast_message", r.b, None, r.ret))
    /\ bc' = IF r.ret = "pending" THEN r.b ELSE NoBroadcast
    /\ UNCHANGED <<pc, connVars, stop>>

\* A task calls broadcast_message.
BroadcastStart(writer) ==
    /\ bc.pc = "idle"
    /\ CommitBroadcast(broadcast_message(World, writer))

\* writer.drain() of the broadcast returned or raised.
BroadcastResume(failed, writer) ==
    /\ bc.pc = "drain"
    /\ CommitBroadcast(broadcast_resume(World, bc, failed, writer))

NextCast ==
    \/ \E c \in Conns : Connect(c)
    \/ \E c \in Conns, data \in DataCast : Receive(c, data)
    \/ \E c \in Conns : Drained(c)
    \/ \E c \in Conns : EndOfStream(c)
    \/ \E c \in Conns : Closed(c)
    \/ \E writer \in NextWriters(NoBroadcast) : BroadcastStart(writer)
    \/ \E failed \in BOOLEAN, writer \in NextWriters(bc) :
          BroadcastResume(failed, writer)

SpecCast == InitConn /\ [][NextCast]_vars

-----------------------------------------------------------------------------
(* Claims about the client set and broadcast, checked under SpecCast *)

\* The connections that are open: accepted and not yet closed by their
\* handler.
OpenConnections == {c \in Conns : pc[c] \in {"read", "drain"}}

\* C18 (as claimed): the clients_connected value of a get_status response
\* is the number of open connections, the requesting one included.
C18_StatusCountsOpenConnections ==
    (DecodedObject /\ LastRequest.command = "get_status") =>
        Writes(trace)[1].ev.clients_connected = Cardinality(OpenConnections)

\* The last step ended a broadcast_message call in which a write failed.
BroadcastEndedWithFailure ==
    /\ lastCall.op = "broadcast_message"
    /\ lastCall.ret # "pending"
    /\ lastCall.arg.to_remove # {}

\* C20 (as claimed): a broadcast in which the write to one connection fails
\* returns normally, has written the message to every other connection
\* that was in the client set, and has removed the failing connection from
\* the client set.
C20_BroadcastPartialFailure ==
    BroadcastEndedWithFailure =>
        /\ lastCall.ret = "returned"
        /\ lastCall.arg.start \ lastCall.arg.to_remove
              \subseteq lastCall.arg.visited
        /\ clients \cap lastCall.arg.to_remove = {}

\* The last step ended a broadcast_message call during which the client set
\* changed: a handler added or discarded a writer while the call was
\* suspended in writer.drain().
BroadcastEndedAfterChange ==
    /\ lastCall.op = "broadcast_message"
    /\ lastCall.ret # "pending"
    /\ lastCall.arg.visited # {}
    /\ pre.clients # lastCall.arg.start

\* C21 (as claimed): a broadcast during which a client connected or
\* disconnected does not raise to its caller and has written the message to
\* every connection that remains in the client set.
C21_BroadcastToleratesSetChanges ==
    BroadcastEndedAfterChange =>
        /\ lastCall.ret = "returned"
        /\ clients \subseteq lastCall.arg.visited

\* C22 (as claimed): every step that changes the client set is the accept
\* path of a connection handler adding its own writer or that handler's
\* cleanup path removing its own writer; a step of broadcast_message or of
\* a command handler leaves the client set as it was.
C22_ClientSetOnlyAcceptAndCleanup ==
    [][clients' # clients =>
          \/ /\ lastCall'.op = "connect"
             /\ clients' = clients \cup {lastCall'.arg}
          \/ /\ lastCall'.op = "eof"
             /\ clients' = clients \ {lastCall'.arg}]_vars

\* C37 (as claimed): between the steps of the tasks the client set is
\* exactly the set of connections whose handler is in its read loop, also
\* after broadcasts with write failures.
C37_ClientSetIsReadLoop == clients = OpenConnections

-----------------------------------------------------------------------------
(* SpecStop: the life cycle of the command server: start_server, the       *)
(* connection handlers with every path that ends them, a custom handler    *)
(* that awaits, broadcast_message, the game loop, and a caller of          *)
(* stop_server                                                             *)

DataStop == {OneLine("object", PingRequest)}

\* The application after construction with a custom handler that awaits
\* registered; the server is not started; every task starts at the
\* position pc0 gives it.
InitServer(pc0) ==
    LET w == add_command_handler(AfterConstruction, "slow", "awaits") IN
    /\ states = w.states
    /\ current_state = w.current
    /\ previous_state = w.previous
    /\ is_active = w.active
    /\ listeners = w.listeners
    /\ raising = w.raising
    /\ running = w.running
    /\ clients = w.clients
    /\ command_handlers = w.handlers
    /\ is_running = w.is_running
    /\ server = w.server
    /\ closes = w.closes
    /\ lines = [c \in Conns |-> 0]
    /\ replies = [c \in Conns |-> <<>>]
    /\ partial = [c \in Conns |-> FALSE]
    /\ bc = NoBroadcast
    /\ stop = NoStop
    /\ handler_fields = [h \in Handlers \cup AppHandlers |-> NewFields]
    /\ ticks = 0
    /\ info = NoInfo
    /\ trace = <<>>
    /\ lastCall = Call("init", None, None, None)
    /\ pre = Snapshot
    /\ run = NoRun
    /\ pc = pc0
    /\ stepper = None

\* The game loop is in its sleep, the task of start_server has not run yet.
InitStop ==
    InitServer([t \in Tasks |-> IF t = "loop" THEN "sleep" ELSE "none"])

\* The task of start_server runs up to serve_forever, or to its end when
\* the address cannot be bound.
StartServer(bound) ==
    /\ pc["server"] = "none"
    /\ CommitStep("server", start_server(World, bound),
                  Call("start_server", bound, None, None))
    /\ pc' = [pc EXCEPT !["server"] = IF bound THEN "serving" ELSE "done"]
    /\ UNCHANGED <<connVars, bc, stop>>

\* reader.read returned a request for the custom handler that awaits.
AwaitHandler(c) ==
    /\ pc[c] = "read"
    /\ "slow" \in DOMAIN command_handlers
    /\ CommitStep(c, process_command_await(World, "slow"),
                  Call("receive", c, "slow", None))
    /\ pc' = [pc EXCEPT ![c] = "handler"]
    /\ UNCHANGED <<connVars, bc, stop>>

\* The custom handler returned or raised.
HandlerDone(c, raised) ==
    /\ pc[c] = "handler"
    /\ CommitStep(c, handler_return(World, c, raised),
                  Call("handler_done", c, raised, None))
    /\ pc' = [pc EXCEPT ![c] = "drain"]
    /\ UNCHANGED <<connVars, bc, stop>>

\* writer.drain() raised (the peer is gone): whether the drain was the one
\* inside the try or the one of an except clause, the exception reaches the
\* outer except clause, since the drain after the processing_error write
\* raises as well; the finally block runs.
WriteError(c) ==
    /\ pc[c] = "drain"
    /\ CommitStep(c, cleanup(World, c), Call("write_error", c, None, None))
    /\ pc' = [pc EXCEPT ![c] = "closing"]
    /\ UNCHANGED <<connVars, bc, stop>>

\* The handler's task is cancelled while the server shuts down:
\* CancelledError is raised at its await; in the loop it is caught and the
\* finally block runs, in writer.wait_closed() it ends the handler.
Cancel(c) ==
    /\ server = "closed"
    /\ pc[c] \in {"read", "drain", "handler", "closing"}
    /\ CommitStep(c, IF pc[c] = "closing" THEN World ELSE cleanup(World, c),
                  Call("cancel", c, None, None))
    /\ pc' = [pc EXCEPT ![c] = IF pc[c] = "closing" THEN "closed"
                                ELSE "closing"]
    /\ UNCHANGED <<connVars, bc, stop>>

\* The variables after a step of stop_server that returned r.
CommitStop(r, s) ==
    /\ CommitStep("caller", r.w, Call("stop_server", s, None, r.ret))
    /\ stop' = [s EXCEPT !.pc = IF r.ret = "pending" THEN "wait_closed"
                                ELSE "idle"]
    /\ UNCHANGED <<pc, connVars, bc>>

\* A task calls stop_server.
StopBegin ==
    /\ stop.pc = "idle"
    /\ CommitStop(stop_server(World),
                  [pc |-> "idle",
                   open |-> {c \in Conns : pc[c] \in {"read", "drain",
                                                      "handler"}},
                   inflight |-> {c \in Conns : pc[c] = "handler"}])

\* server.wait_closed() returned. It returns once the listening socket is
\* closed; it does not end the connections.
StopEnd ==
    /\ stop.pc = "wait_closed"
    /\ CommitStop([w |-> stop_server_resume(World), ret |-> "returned"], stop)

NextStop ==
    \/ \E bound \in BOOLEAN : StartServer(bound)
    \/ \E c \in Conns : Connect(c)
    \/ \E c \in Conns, data \in DataStop : Receive(c, data)
    \/ \E c \in Conns : AwaitHandler(c)
    \/ \E c \in Conns, raised \in BOOLEAN : HandlerDone(c, raised)
    \/ \E c \in Conns : Drained(c)
    \/ \E c \in Conns : WriteError(c)
    \/ \E c \in Conns : EndOfStream(c)
    \/ \E c \in Conns : Cancel(c)
    \/ \E c \in Conns : Closed(c)
    \/ \E writer \in NextWriters(NoBroadcast) : BroadcastStart(writer)
    \/ \E failed \in BOOLEAN, writer \in NextWriters(bc) :
          BroadcastResume(failed, writer)
    \/ Tick(<<>>)
    \/ StopBegin
    \/ StopEnd

SpecStop == InitStop /\ [][NextStop]_vars

-----------------------------------------------------------------------------
(* Claims about the server life cycle, checked under SpecStop *)

\* The connections whose handler has run its finally block: suspended in
\* writer.wait_closed() or ended.
CleanedUp == {c \in Conns : pc[c] \in {"closing", "closed"}}

\* C23: whichever path ends a connection (end of stream, a write error on
\* a response, a write error found by a broadcast, cancellation), its
\* socket is closed exactly once and it is removed from the client set: no
\* writer is closed twice, a connection in the client set has a running
\* handler, and a connection whose handler ran its cleanup is closed and
\* out of the client set.
C23_CleanupExactlyOnce ==
    \A c \in Conns :
        /\ closes[c] <= 1
        /\ c \in clients => pc[c] \in {"read", "drain", "handler"}
        /\ c \in CleanedUp => closes[c] = 1 /\ c \notin clients
        /\ pc[c] \in {"read", "drain", "handler"} => closes[c] = 0

\* C23 witness: a connection that a broadcast had already removed from the
\* client set after a failed write ends on a write error of its own
\* handler, which closes it once.
C23_Witness ==
    /\ lastCall.op = "write_error"
    /\ lastCall.arg \notin pre.clients
    /\ closes[lastCall.arg] = 1
    /\ pc[lastCall.arg] = "closing"

\* The last step was a step of stop_server.
StopStep == lastCall.op = "stop_server"

\* C24: stop_server before any start changes nothing and returns; after a
\* start it closes the listening socket at once and has cleared is_running
\* when it returns; a call on a stopped server leaves every field as it
\* was; once the socket is closed no connection is accepted and the socket
\* stays closed; and a handler that awaits its command handler, whenever
\* stop_server runs, writes the response on its own connection when the
\* command handler is done.
C24_StopServerIdempotent ==
    /\ [](StopStep /\ pre.server = None =>
             lastCall.ret = "returned" /\ Snapshot = pre)
    /\ [](StopStep /\ pre.server # None =>
             /\ server = "closed"
             /\ clients = pre.clients
             /\ lastCall.ret = "returned" => ~is_running)
    /\ [](StopStep /\ pre.server = "closed" /\ ~pre.is_running =>
             Snapshot = pre)
    /\ [][server = "closed" =>
             server' = "closed" /\ lastCall'.op # "connect"]_vars
    /\ [][lastCall'.op = "handler_done" =>
             /\ Len(Writes(trace')) = 1
             /\ Writes(trace')[1].h = lastCall'.arg
             /\ pc'[lastCall'.arg] = "drain"]_vars

\* C24 witness: stop_server was called while a handler awaited its command
\* handler and has returned; the command handler is done now and the
\* response is written.
C24_Witness ==
    /\ lastCall.op = "handler_done"
    /\ lastCall.arg \in stop.inflight
    /\ stop.pc = "idle"
    /\ server = "closed"
    /\ ~is_running
    /\ Len(Writes(trace)) = 1

\* C25 (as claimed): when stop_server has returned, every connection that
\* was open when it was called is closed and the client set is empty.
C25_StopClosesConnections ==
    (StopStep /\ lastCall.ret = "returned" /\ pre.server # None) =>
        /\ clients = {}
        /\ \A c \in lastCall.arg.open : closes[c] = 1

-----------------------------------------------------------------------------
(* SpecSlow: the connection handlers with a custom command handler that    *)
(* awaits, and the game loop                                               *)

\* The pygame events an iteration of the game loop may find: none, the key
\* of the thinking state, or the key that ends the loop.
KeysSlow == {<<>>, <<"K_2">>, <<"K_ESCAPE">>}

NextSlow ==
    \/ \E bound \in BOOLEAN : StartServer(bound)
    \/ \E c \in Conns : Connect(c)
    \/ \E c \in Conns, data \in DataStop : Receive(c, data)
    \/ \E c \in Conns : AwaitHandler(c)
    \/ \E c \in Conns, raised \in BOOLEAN : HandlerDone(c, raised)
    \/ \E c \in Conns : Drained(c)
    \/ \E c \in Conns : EndOfStream(c)
    \/ \E c \in Conns : Closed(c)
    \/ \E keys \in KeysSlow : Tick(keys)
    \/ LoopExit

SpecSlow == InitStop /\ [][NextSlow]_vars

\* C27: while the handler of one connection awaits its custom command
\* handler, a request on any other connection that is waiting in
\* reader.read can be read, and the step that reads it writes its response
\* and leaves the awaiting handler where it is; the game loop can run its
\* next iteration; and nothing is read on the awaiting connection itself.
C27_SlowHandlerDelaysOnlyItself ==
    /\ [](\A c \in Conns : pc[c] = "handler" =>
             /\ \A d \in Conns \ {c} : pc[d] = "read" =>
                    ENABLED Receive(d, OneLine("object", PingRequest))
             /\ (pc["loop"] = "sleep" /\ running) => ENABLED Tick(<<>>)
             /\ ~ENABLED Receive(c, OneLine("object", PingRequest))
             /\ ~ENABLED AwaitHandler(c)
             /\ ~ENABLED EndOfStream(c))
    /\ [][\A c \in Conns :
             (pc[c] = "handler" /\ lastCall'.op = "receive"
                 /\ lastCall'.extra # "slow") =>
                /\ lastCall'.arg # c
                /\ pc'[c] = "handler"
                /\ Len(Writes(trace')) = 1
                /\ Writes(trace')[1].h = lastCall'.arg
                /\ Writes(trace')[1].ev = Success("ping")]_vars

\* C27 witness: while c1 awaits its custom handler, c2's ping has just been
\* answered.
C27_Witness ==
    /\ pc["c1"] = "handler"
    /\ lastCall.op = "receive"
    /\ lastCall.arg = "c2"
    /\ Len(Writes(trace)) = 1
    /\ Writes(trace)[1].ev = Success("ping")
    /\ pc["c2"] = "drain"

-----------------------------------------------------------------------------
(* SpecMain: _run_with_command_interface, the main coroutine that runs the *)
(* task of start_server and the game loop and waits for the first of them  *)
(* to end                                                                  *)

DataMain ==
    {OneLine("object", PingRequest),
     OneLine("object", Request("shutdown", None, None))}

\* The main coroutine has not created its tasks yet.
InitMain ==
    InitServer([t \in Tasks |-> IF t = "main" THEN "start"
                               ELSE IF t \in Conns THEN "none" ELSE "new"])

\* The two tasks main waits for.
MainTasks == {"server", "loop"}

\* A task that has ended: it returned or was cancelled.
Ended(t) == pc[t] \in {"done", "cancelled"}

\* create_task for both coroutines, then await asyncio.wait(...,
\* FIRST_COMPLETED). The game loop starts with its test of self.running, as
\* it does after every sleep.
RunMain ==
    /\ pc["main"] = "start"
    /\ CommitStep("main", World, Call("run", None, None, None))
    /\ pc' = [pc EXCEPT !["main"] = "wait", !["server"] = "none",
                        !["loop"] = "sleep"]
    /\ UNCHANGED <<connVars, bc, stop>>

\* asyncio.wait returned because one of the two tasks ended: main cancels
\* the other and awaits it.
MainWake ==
    /\ pc["main"] = "wait"
    /\ \E t \in MainTasks : Ended(t)
    /\ CommitStep("main", World,
                  Call("cancel_pending", {t \in MainTasks : ~Ended(t)},
                       None, None))
    /\ pc' = [pc EXCEPT !["main"] = "cancelling"]
    /\ UNCHANGED <<connVars, bc, stop>>

\* What the cancellation does to the world: the game loop just ends; the
\* task of start_server leaves serve_forever through async with, which
\* closes the server; CancelledError is no Exception, so is_running is left
\* as it is.
cancelled(w, t) ==
    IF t = "server" /\ w.server = "listening"
    THEN [w EXCEPT !.server = "closed"]
    ELSE w

\* CancelledError is raised in the pending task, which ends.
TaskCancelled(t) ==
    /\ pc["main"] = "cancelling"
    /\ ~Ended(t)
    /\ CommitStep(t, cancelled(World, t), Call("cancelled", t, None, None))
    /\ pc' = [pc EXCEPT ![t] = "cancelled"]
    /\ UNCHANGED <<connVars, bc, stop>>

\* The finally block of main: stop_server up to its await, or to its end.
MainStop ==
    /\ pc["main"] = "cancelling"
    /\ \A t \in MainTasks : Ended(t)
    /\ CommitStep("main", stop_server(World).w,
                  Call("stop_server", None, None, None))
    /\ pc' = [pc EXCEPT !["main"] = IF server # None THEN "stopping"
                                   ELSE "done"]
    /\ UNCHANGED <<connVars, bc, stop>>

\* stop_server returned; cleanup() ends the process with sys.exit().
MainExit ==
    /\ pc["main"] = "stopping"
    /\ CommitStep("main", stop_server_resume(World),
                  Call("exit", None, None, None))
    /\ pc' = [pc EXCEPT !["main"] = "done"]
    /\ UNCHANGED <<connVars, bc, stop>>

NextMain ==
    \/ RunMain
    \/ \E bound \in BOOLEAN : StartServer(bound)
    \/ \E c \in Conns : Connect(c)
    \/ \E c \in Conns, data \in DataMain : Receive(c, data)
    \/ \E c \in Conns : Drained(c)
    \/ \E c \in Conns : EndOfStream(c)
    \/ \E c \in Conns : Closed(c)
    \/ \E keys \in KeysSlow : Tick(keys)
    \/ LoopExit
    \/ MainWake
    \/ \E t \in MainTasks : TaskCancelled(t)
    \/ MainStop
    \/ MainExit

SpecMain == InitMain /\ [][NextMain]_vars

-----------------------------------------------------------------------------
(* Claims about the run of the application, checked under SpecMain *)

\* The task of start_server ended by itself: the address could not be
\* bound (serve_forever does not return).
BindFailed == pc["server"] = "done"

\* C26 (as claimed): when the server fails to bind, is_running is false and
\* the game loop goes on until a local quit or a shutdown request clears
\* running: it is never ended by cancellation.
C26_BindFailureNotFatal ==
    BindFailed => ~is_running /\ pc["loop"] # "cancelled"

-----------------------------------------------------------------------------
(* SpecIntensity, SpecHandler: the application's machine with the fields   *)
(* of its Thinking and Speaking handlers                                   *)

\* Values of the intensity parameter, in tenths: below the range, inside
\* it and above it.
IntensityValues == {0, 10, 25}

\* Values of the duration parameter, in milliseconds.
Durations == {0, 100}

\* Lengths of a lip_sync_pattern parameter.
PatternLengths == {1}

\* The keys a handler's handle_event looks at.
HandlerKeys == {"K_UP", "K_DOWN", "K_RETURN", "K_SPACE"}

\* The application's handlers that keep an intensity.
IntensityHandlers == {"thinking1", "speaking1"}

\* The **kwargs of a change_state call: each of the three parameters is
\* given (a sequence of length 1) or absent (the empty sequence).
MakeKwargs(i, d, l) ==
    [k \in {x \in {"intensity"} : i # <<>>}
           \cup {x \in {"duration"} : d # <<>>}
           \cup {x \in {"lip_sync_pattern"} : l # <<>>} |->
        CASE k = "intensity" -> i[1]
          [] k = "duration" -> d[1]
          [] k = "lip_sync_pattern" -> l[1]]

Optional(S) == {<<>>} \cup {<<x>> : x \in S}

IntensityKwargs == {MakeKwargs(i, <<>>, <<>>) : i \in Optional(IntensityValues)}

TimingKwargs ==
    {MakeKwargs(<<>>, d, <<>>) : d \in Optional(Durations)}
    \cup {MakeKwargs(<<>>, <<>>, <<l>>) : l \in PatternLengths}

\* The application after __init__, with no task of the event loop started.
InitHandler == InitTasks([t \in Tasks |-> "none"])

\* state_machine.change_state(state_name, **kwargs), as on_command_received
\* calls it with the parameters of a request: the handler that is entered
\* reads its fields from kwargs.
EnterState(state_name, kwargs) ==
    /\ CommitMachine(change_state(World, state_name,
                                  IF DOMAIN kwargs = {} THEN "none"
                                  ELSE "intensity").w,
                     Call("change_state", state_name, kwargs, None))
    /\ handler_fields' =
           IF Count(trace', "enter") > 0
           THEN [handler_fields EXCEPT ![current_state'] =
                     state_enter(@, state_name, kwargs, ticks)]
           ELSE handler_fields
    /\ UNCHANGED <<run, ticks, info>>

\* state_machine.update(dt): the active handler's update, whose dict is
\* returned.
Update ==
    /\ CommitMachine(forward(World, "update"),
                     Call("update", None, None, None))
    /\ IF current_state = None
       THEN UNCHANGED <<handler_fields, info>>
       ELSE LET h == current_state
                u == state_update(handler_fields[h], NameOf(h), is_active[h],
                                  ticks)
            IN /\ handler_fields' =
                      [handler_fields EXCEPT ![h] =
                          [u.f EXCEPT !.reported =
                                          @ \/ u.should_return_to_idle]]
               /\ info' = Info(NameOf(h), u.elapsed_time,
                               u.should_return_to_idle,
                               u.current_lip_intensity,
                               handler_fields[h].reported)
    /\ UNCHANGED <<run, ticks>>

\* state_machine.render(screen)
Render ==
    /\ CommitMachine(forward(World, "render"),
                     Call("render", None, None, None))
    /\ UNCHANGED <<run, handlerVars>>

\* state_machine.handle_event(event) for a KEYDOWN of key.
HandleEvent(key) ==
    /\ CommitMachine(forward(World, "handle_event"),
                     Call("handle_event", key, None, None))
    /\ handler_fields' =
           IF current_state = None THEN handler_fields
           ELSE [handler_fields EXCEPT ![current_state] =
                     state_handle_event(@, NameOf(current_state), key)]
    /\ UNCHANGED <<run, ticks, info>>

\* set_thinking_intensity(intensity) / set_speaking_intensity(intensity) of
\* handler h.
SetIntensity(h, intensity) ==
    /\ CommitMachine(World, Call("set_intensity", h, intensity, None))
    /\ handler_fields' = [handler_fields EXCEPT ![h] = set_intensity(@, intensity)]
    /\ UNCHANGED <<run, ticks, info>>

\* TickStep milliseconds pass, up to the last of n steps.
AdvanceTo(n) ==
    /\ ticks < n * TickStep
    /\ ticks' = ticks + TickStep
    /\ CommitMachine(World, Call("advance", None, None, None))
    /\ UNCHANGED <<run, handler_fields, info>>

Advance == AdvanceTo(MaxTicks)

NextIntensity ==
    \/ \E state_name \in {"idle", "thinking", "speaking"},
          kwargs \in IntensityKwargs : EnterState(state_name, kwargs)
    \/ \E key \in HandlerKeys : HandleEvent(key)
    \/ \E h \in IntensityHandlers, intensity \in IntensityValues :
          SetIntensity(h, intensity)

SpecIntensity == InitHandler /\ [][NextIntensity]_vars

NextHandler ==
    \/ \E state_name \in {"thinking", "speaking"},
          kwargs \in TimingKwargs : EnterState(state_name, kwargs)
    \/ Update
    \/ Render
    \/ \E key \in {"K_RETURN", "K_SPACE"} : HandleEvent(key)
    \/ Advance

SpecHandler == InitHandler /\ [][NextHandler]_vars

-----------------------------------------------------------------------------
(* Claims about the handlers' fields, checked under SpecIntensity and      *)
(* SpecHandler                                                             *)

\* C28 (as claimed): after any sequence of enter(intensity = v),
\* set_*_intensity(v) and UP / DOWN key events, the intensity held by the
\* Thinking handler and by the Speaking handler is within [0.1, 2.0].
C28_IntensityWithinRange ==
    \A h \in IntensityHandlers : handler_fields[h].intensity \in 1..20

\* The last operation was an update of the active handler, whose dict is
\* in info.
Updated == lastCall.op = "update" /\ current_state # None

\* The elapsed time the last update saw had reached the duration the
\* activation was entered with.
ElapsedReachedDuration ==
    LET f == handler_fields[current_state] IN
    f.duration # <<>> /\ info.elapsed_time >= f.duration[1]

\* C29 (as claimed): an update of a Thinking handler reports
\* should_return_to_idle exactly when a duration was given and the elapsed
\* time has reached it; an update of a Speaking handler reports it whenever
\* the elapsed time has reached the duration given or the lip-sync index
\* has reached the length of the pattern; and once an update of an
\* activation has reported it, every later update of that activation does.
C29_ShouldReturnToIdle ==
    Updated =>
        /\ info.state = "thinking" =>
               (info.should_return_to_idle <=> ElapsedReachedDuration)
        /\ (/\ info.state = "speaking"
            /\ \/ ElapsedReachedDuration
               \/ handler_fields[current_state].lip_sync_index
                      >= handler_fields[current_state].lip_sync_length)
           => info.should_return_to_idle
        /\ info.before => info.should_return_to_idle

\* C30: a step of StateMachine.update, render or handle_event, with the
\* active handler's method it forwards to, leaves the registry, the active
\* handler and previous_state_name as they were and emits no STATE_CHANGED,
\* also when the handler reports should_return_to_idle.
C30_HandlersOnlySignal ==
    [][lastCall'.op \in {"update", "render", "handle_event"} =>
           /\ states' = states
           /\ current_state' = current_state
           /\ previous_state' = previous_state
           /\ Count(trace', "emit") = 0]_vars

\* An update reported should_return_to_idle and the handler that reported
\* it is still the active one.
C30_Witness ==
    /\ Updated
    /\ info.should_return_to_idle
    /\ NameOf(current_state) = info.state
    /\ pre.current = current_state
    /\ is_active[current_state]

-----------------------------------------------------------------------------
(* Further claims about the state machine, checked under Spec *)

\* C33 (as claimed): between the calls of the machine a handler has
\* is_active = true exactly when it is the machine's active handler, also
\* after a change_state whose target's enter() raised.
C33_ActiveFlagMatchesPointer ==
    \A h \in Handlers : is_active[h] <=> h = current_state

\* current_state_name: the name of the active handler, or None.
CurrentName(h) == IF h = None THEN None ELSE NameOf(h)

\* The STATE_CHANGED events emitted by the calls of t, in order.
StateChangedEvents(t) ==
    SelectSeq(t, LAMBDA e : e.op = "emit" /\ e.h = "STATE_CHANGED")

\* C34 (as claimed): every change of the machine's current_state_name is
\* announced: the operation that changes it emits STATE_CHANGED, and the
\* last event it emits carries the new name as current_state, so the last
\* event emitted always names the machine's active state.
C34_EveryChangeAnnounced ==
    [][CurrentName(current_state') # CurrentName(current_state) =>
           /\ StateChangedEvents(trace') # <<>>
           /\ StateChangedEvents(trace')[Len(StateChangedEvents(trace'))]
                  .ev.data.current_state = CurrentName(current_state')]_vars

\* The last operation was a change_state that replaced the active handler
\* and returned True.
Transitioned ==
    /\ lastCall.op = "change_state"
    /\ lastCall.ret = "True"
    /\ current_state # pre.current

\* C39: after a successful transition previous_state_name is the name of
\* the handler that was active before the call, or None when none was;
\* add_state, remove_state, a rejected change_state and a change_state to
\* the active state leave previous_state_name as it was.
C39_PreviousStateName ==
    /\ Transitioned => previous_state = CurrentName(pre.current)
    /\ (\/ lastCall.op \in {"add_state", "remove_state"}
        \/ /\ lastCall.op = "change_state"
           /\ \/ lastCall.ret = "False"
              \/ /\ pre.current # None
                 /\ NameOf(pre.current) = lastCall.arg)
       => previous_state = pre.previous

\* C39 witness: a handler was activated after remove_state had removed the
\* active one, so the recorded previous name went back to None.
C39_Witness ==
    /\ Transitioned
    /\ pre.current = None
    /\ pre.previous # None
    /\ previous_state = None

\* C38: change_state(X, params) while X is the active state calls nothing
\* and leaves the fields of every handler (intensity, duration, lip-sync
\* pattern and index, start time), the active handler, the activity flags
\* and previous_state_name as they were: the parameters are not applied.
C38_SameStateIgnoresParameters ==
    [][(/\ lastCall'.op = "change_state"
        /\ current_state # None
        /\ lastCall'.arg = NameOf(current_state)) =>
           /\ handler_fields' = handler_fields
           /\ current_state' = current_state
           /\ previous_state' = previous_state
           /\ is_active' = is_active
           /\ trace' = <<>>]_vars

\* C38 witness: change_state("thinking", duration = d) was called some time
\* after thinking had been entered with another duration, or none, and the
\* handler still holds the duration it was entered with.
C38_Witness ==
    /\ lastCall.op = "change_state"
    /\ lastCall.arg = "thinking"
    /\ pre.current = "thinking1"
    /\ current_state = "thinking1"
    /\ "duration" \in DOMAIN lastCall.extra
    /\ handler_fields["thinking1"].duration # <<lastCall.extra["duration"]>>
    /\ ticks > handler_fields["thinking1"].start_time

-----------------------------------------------------------------------------
(* SpecLipSync: the Speaking handler's lip-sync index over a longer time   *)

\* Lengths of the lip_sync_pattern parameter that the time followed
\* outlasts.
LipPatternLengths == {1, 2}

LipSyncKwargs ==
    {MakeKwargs(<<>>, <<>>, l) : l \in Optional(LipPatternLengths)}

NextLipSync ==
    \/ \E state_name \in {"idle", "speaking"}, kwargs \in LipSyncKwargs :
          EnterState(state_name, kwargs)
    \/ Update
    \/ AdvanceTo(MaxLipTicks)

SpecLipSync == InitHandler /\ [][NextLipSync]_vars

\* The last operation was an update of the active Speaking handler.
SpeakingUpdated == Updated /\ info.state = "speaking"

\* C32: after every update of the active Speaking handler lip_sync_index is
\* the smaller of floor(elapsed_ms / 100) and the length of the pattern;
\* at all times 0 <= lip_sync_index <= length; an update that leaves the
\* index at the length reports should_return_to_idle; and
\* get_current_lip_intensity reads an entry inside the pattern, or returns
\* 0.0 when the index has reached the length.
C32_LipSyncIndex ==
    /\ \A h \in DOMAIN handler_fields :
          /\ 0 <= handler_fields[h].lip_sync_index
          /\ handler_fields[h].lip_sync_index
                 <= handler_fields[h].lip_sync_length
    /\ SpeakingUpdated =>
          LET f == handler_fields[current_state] IN
          /\ f.lip_sync_length > 0
          /\ f.lip_sync_index =
                 IF info.elapsed_time \div 100 < f.lip_sync_length
                 THEN info.elapsed_time \div 100
                 ELSE f.lip_sync_length
          /\ f.lip_sync_index = f.lip_sync_length
                 => (/\ info.should_return_to_idle
                     /\ info.current_lip_intensity = "0.0")
          /\ f.lip_sync_index < f.lip_sync_length
                 => info.current_lip_intensity = "entry"

\* C32 witness: an update found more time elapsed than the pattern lasts:
\* the index stopped at the length and the update reported
\* should_return_to_idle.
C32_Witness ==
    /\ SpeakingUpdated
    /\ info.elapsed_time \div 100 > handler_fields[current_state].lip_sync_length
    /\ handler_fields[current_state].lip_sync_index
           = handler_fields[current_state].lip_sync_length
    /\ info.should_return_to_idle

-----------------------------------------------------------------------------
(* SpecLoop: the game loop ticking, fairly, over the machine and the       *)
(* handlers' fields                                                        *)

\* One iteration of _run_async_game_loop with no event queued:
\* handle_events, update (whose call of state_machine.update drops the dict
\* the handler returns), render, and the time that passes in clock.tick
\* and asyncio.sleep.
Frame ==
    /\ running
    /\ CommitMachine(game_loop_iteration(World, <<>>),
                     Call("tick", <<>>, None, None))
    /\ IF current_state = None
       THEN UNCHANGED <<handler_fields, info>>
       ELSE LET h == current_state
                u == state_update(handler_fields[h], NameOf(h), is_active[h],
                                  ticks)
            IN /\ handler_fields' =
                      [handler_fields EXCEPT ![h] =
                          [u.f EXCEPT !.reported =
                                          @ \/ u.should_return_to_idle]]
               /\ info' = Info(NameOf(h), u.elapsed_time,
                               u.should_return_to_idle,
                               u.current_lip_intensity,
                               handler_fields[h].reported)
    /\ ticks' = IF ticks < MaxTicks * TickStep THEN ticks + TickStep
                ELSE ticks
    /\ UNCHANGED run

\* The parameters of the commands that arrive while the loop ticks: none,
\* or a duration that the time followed outlasts.
LoopKwargs == {MakeKwargs(<<>>, d, <<>>) : d \in Optional({2 * TickStep})}

NextLoop ==
    \/ \E state_name \in {"idle", "thinking", "speaking"},
          kwargs \in LoopKwargs : EnterState(state_name, kwargs)
    \/ Frame

\* The loop keeps ticking: asyncio.sleep(0.001) always returns.
SpecLoop == InitHandler /\ [][NextLoop]_vars /\ WF_vars(Frame)

\* The update of the last tick reported should_return_to_idle for the
\* handler that is active.
ReportedToLoop ==
    /\ lastCall.op = "tick"
    /\ current_state # None
    /\ info.state = NameOf(current_state)
    /\ info.state \in {"thinking", "speaking"}
    /\ info.should_return_to_idle

\* C31 (as claimed): when the update of the active Thinking or Speaking
\* handler reports should_return_to_idle, the ticking loop eventually makes
\* idle the machine's active state, unless a key press or a network
\* command changes the state first.
C31_LoopReturnsToIdle ==
    ReportedToLoop ~>
        (current_state = "idle1" \/ lastCall.op = "change_state")

-----------------------------------------------------------------------------
(* SpecReentrant: the machine and the bus with subscribers that call back  *)
(* into them from inside their invocation                                  *)

\* The callbacks a caller subscribes: s1, which calls change_state from its
\* callback, remover, which unsubscribes itself, adder, which subscribes
\* cbB, and the plain cbA.
ReentrantCallbacks == {"s1", "remover", "adder", "cbA"}

\* A machine with idle, thinking and speaking registered and idle active,
\* and a bus without subscribers.
InitReentrant ==
    /\ states = [n \in {"idle", "thinking", "speaking"} |->
                    CASE n = "idle" -> "idle1"
                      [] n = "thinking" -> "thinking1"
                      [] n = "speaking" -> "speaking1"]
    /\ current_state = "idle1"
    /\ previous_state = None
    /\ is_active = [h \in Handlers |-> h = "idle1"]
    /\ listeners = EmptyDict
    /\ raising = {}
    /\ trace = <<>>
    /\ lastCall = Call("init", None, None, None)
    /\ run = NoRun
    /\ running = TRUE
    /\ clients = {}
    /\ pc = [t \in Tasks |-> "none"]
    /\ stepper = None
    /\ command_handlers = DefaultHandlers
    /\ is_running = FALSE
    /\ server = None
    /\ lines = [c \in Conns |-> 0]
    /\ replies = [c \in Conns |-> <<>>]
    /\ partial = [c \in Conns |-> FALSE]
    /\ bc = NoBroadcast
    /\ closes = [c \in Conns |-> 0]
    /\ stop = NoStop
    /\ handler_fields = [h \in Handlers \cup AppHandlers |-> NewFields]
    /\ ticks = 0
    /\ info = NoInfo
    /\ pre = Snapshot

\* change_state(name) called from outside any callback.
CallChangeState(name) ==
    LET r == change_state(World, name, "none") IN
    /\ Commit(r.w, Call("change_state", name, "none", r.ret))
    /\ UNCHANGED run

NextReentrant ==
    \/ \E name \in {"idle", "thinking", "speaking"} : CallChangeState(name)
    \/ \E callback \in ReentrantCallbacks :
          Subscribe("STATE_CHANGED", callback)
    \/ \E callback \in ReentrantCallbacks :
          Unsubscribe("STATE_CHANGED", callback)

SpecReentrant == InitReentrant /\ [][NextReentrant]_vars

-----------------------------------------------------------------------------
(* Claims about delivery with re-entrant subscribers, checked under        *)
(* SpecReentrant                                                           *)

\* The events callback c was invoked with by the calls of t, in order.
Received(t, c) ==
    LET calls == SelectSeq(t, LAMBDA e : e.op = "call" /\ e.h = c)
    IN [i \in 1..Len(calls) |-> calls[i].ev]

\* The position of event ev among the STATE_CHANGED events emitted by the
\* calls of t (the events of one call differ from each other).
EmitPosition(t, ev) ==
    CHOOSE i \in 1..Len(StateChangedEvents(t)) :
        StateChangedEvents(t)[i].ev = ev

\* C35 (as claimed): every subscriber receives the STATE_CHANGED events of
\* a change_state call in the order in which the transitions happened, also
\* when a subscriber called change_state from inside its callback, and the
\* last event a subscriber receives names the machine's active state.
C35_DeliveryInTransitionOrder ==
    lastCall.op = "change_state" =>
        \A c \in Range(ListenersOf(pre.listeners, "STATE_CHANGED")) :
            LET rec == Received(trace, c) IN
            /\ \A i, j \in 1..Len(rec) :
                  i < j => EmitPosition(trace, rec[i])
                               < EmitPosition(trace, rec[j])
            /\ rec # <<>> =>
                  rec[Len(rec)].data.current_state
                      = CurrentName(current_state)

\* C36 (as claimed): the emit of a change_state call (one that no callback
\* answered with a further change_state) invokes every callback that was
\* subscribed to STATE_CHANGED when the emit started exactly once with its
\* event, also when a callback unsubscribes itself or subscribes another
\* from inside its invocation.
C36_EmitDeliversToAllSubscribed ==
    (lastCall.op = "change_state" /\ Len(StateChangedEvents(trace)) = 1) =>
        \A c \in Range(ListenersOf(pre.listeners, "STATE_CHANGED")) :
            Len(SelectSeq(Received(trace, c),
                          LAMBDA ev : ev = StateChangedEvents(trace)[1].ev))
                = 1

====
